---------------------------- MODULE Spec2Model ----------------------------
(***************************************************************************)
(* State-machine model of hivefeedprice:                                   *)
(*   - HiveChainWithFailover (src/utils/hive-chain-failover.ts): one       *)
(*     wrapper instance driven by one sequential caller; specification     *)
(*     Spec.                                                               *)
(*   - PriceAggregator.getAggregatedHivePrice (services/price-aggregator)  *)
(*     with mapProvidersToExchangePrices (utils/provider-mapping.ts): one  *)
(*     call, its rounds, the provider invocations in flight and the round  *)
(*     deadline; specification SpecAgg.                                    *)
(* Prices are integers in thousandths (10.500 is 10500).  Every provider    *)
(* of the aggregator is an object with an exchangeName.                    *)
(***************************************************************************)
EXTENDS Integers, Sequences, FiniteSets, TLC

(***************************************************************************)
(* Bounds of the model.                                                    *)
(***************************************************************************)
\* largest number of endpoints given to the failover wrapper
MaxNodes == 3
\* largest explicit config.maxRetries given to the failover wrapper
MaxRetriesCfg == 3
\* number of providers held by the aggregator
NumProviders == 2
\* largest number of successful entries handed to calculateFinalPrice
MaxEntries == 3
\* largest retryAttempts a provider is configured with
MaxAttempts == 3
\* largest maxRetries a provider is configured with
MaxReqRetries == 3
\* largest number of publishFeed calls of the bot in flight at once
MaxPublishes == 2
\* longest string handed to validatePriceData
MaxInputLen == 5
\* longest list in HIVE_PRICE_PROVIDER_MODULES
MaxEnvItems == 2
\* most registerDescriptor / registerProvider calls
MaxRegistrations == 2
\* getHivePrice calls made on one LazyModuleProvider
MaxLazyCalls == 3
\* most calls of validatePriceData on one input
MaxValidateCalls == 2
\* start() calls made on one HiveFeedPriceBot
MaxStarts == 2

(***************************************************************************)
(* Program constants.                                                      *)
(***************************************************************************)
BaseRetryDelay == 500
MaxRetryDelay == 5000
AggMaxRetries == 3
AggRetryDelayUnit == 2000
DefaultRetryAttempts == 3
DefaultRetryDelay == 1000
DefaultReqRetries == 3

VARIABLES
    \* ---- HiveChainWithFailover ----
    nodes,             \* number of endpoints; endpoint URLs are 0..nodes-1
    maxRetries,        \* this.maxRetries
    chain,             \* this.chain: Null, or the endpointUrl (an index of nodes)
    currentNodeIndex,  \* this.currentNodeIndex
    initPc,            \* initialize(): "none" | "pending" (awaiting createHiveChain)
    initUrl,           \* the apiEndpoint initialize() passed to createHiveChain
    fpc,               \* executeWithFailover: "idle" | "op" | "sleep"
    attempt,           \* local attempt
    lastError,         \* local lastError
    fres,              \* how the last executeWithFailover call ended
    gres,              \* how the last getChain call ended
    i0,                \* currentNodeIndex when the call was made
    invocations,       \* invocations of operation in this call
    recovFailures,     \* recoverable failures caught in this call
    sleeps,            \* backoff sleeps taken in this call
    delay,             \* the delay of the last backoff sleep
    opNode,            \* endpoint the operation in flight was started against
    \* ---- PriceAggregator ----
    weightCfg,         \* providersConfig: provider -> <<weight>>, or <<>> if none
    apc,               \* getAggregatedHivePrice: "idle" | "round" | "sleep" | "done"
    aAttempt,          \* local attempt
    inflight,          \* getHivePrice invocations not yet settled: <<provider, round>>
    entries,           \* this round's settled entries: provider -> entry or Pending
    exchangePrices,    \* what fetchPricesWithTimeout returned for the last round
    timedOut,          \* rounds whose deadline won the race
    roundsRun,         \* rounds started in this call
    aSleeps,           \* the inter-round sleeps taken, in order
    ares,              \* how the call ended
    \* ---- PriceAggregator: constructor and calculateFinalPrice ----
    cConfig,           \* the ProviderConfig[] given to the constructor
    cProvidersConfig,  \* this.providersConfig
    cSuccessful,       \* the successfulPrices given to calculateFinalPrice
    cWeighted,         \* weightedPrices, the result of applyWeights
    cOut,              \* how calculateFinalPrice ended
    cpc,               \* "new" | "ready" | "done"
    \* ---- mapProvidersToExchangePrices / mapProvidersToDetailedPrices ----
    mProviders,        \* the providers array: what each element is
    mFn,               \* the function called: "exchange" | "detailed" | "none"
    mpc,               \* "idle" | "waiting" (in Promise.allSettled) | "done"
    mSettled,          \* provider -> how its wrapper promise settled, or pending
    mInvoked,          \* provider -> calls of its getHivePrice
    mOutcome,          \* provider -> what its getHivePrice did
    mRes,              \* how the call ended
    \* ---- PriceProvider.fetchWithRetry ----
    retryAttempts,     \* this.retryAttempts
    retryDelay,        \* this.retryDelay
    wpc,               \* "idle" | "fetch" (awaiting fetchFn) | "sleep" | "done"
    wAttempt,          \* local attempt
    wLastError,        \* local lastError: 0 is null, else the error caught
    wCalls,            \* how the invocations of fetchFn ended, in order
    wSleeps,           \* the sleeps taken, in order
    wRes,              \* how the call ended
    \* ---- PriceProvider.makeRequest / executeWithRetry ----
    pMaxRetries,       \* the provider's this.maxRetries (context.maxRetries)
    qpc,               \* "idle" | "op" (awaiting operation) | "sleep" | "done"
    qAttempt,          \* local attempt
    qLastError,        \* local lastError
    qResponses,        \* what fetch did in each invocation of operation
    qThrown,           \* what operation threw, in order
    qSleeps,           \* the sleeps taken, in order
    qRes,              \* how the call ended
    \* ---- HiveFeedPriceBot and its FeedPublisher ----
    isRunning,         \* this.isRunning
    isShuttingDown,    \* this.isShuttingDown
    intervalId,        \* this.intervalId: is the interval timer armed
    startPc,           \* start(): "idle" | "init" | "publish" | "failed"
    firstPub,          \* the publishFeed call start() awaits (0: none)
    pubPc,             \* publishFeed call -> "free" | "agg" | "op" | "sleep"
    pubAttempt,        \* publishFeed call -> attempt of its executeWithFailover
    pubOpNode,         \* publishFeed call -> endpoint its operation started on
    \* ---- one call of DomainAwareErrorHandler.createPriceError ----
    kMessage,          \* the raw error's message
    kContext,          \* the context argument: operation and exchangeName ("": absent)
    kpc,               \* "idle" | "done"
    kError,            \* the error returned
    kErrContext,       \* the context of the error returned
    \* ---- calls of validatePriceData on one input ----
    vData,             \* the data argument
    vOuts,             \* the outcomes of the calls made so far
    \* ---- one getHivePrice call of a provider ----
    gProvider,         \* the provider class
    gRaw,              \* what the exchange answered for each pair
    gpc,               \* "idle" | "done"
    gOut,              \* how getHivePrice ended
    \* ---- the provider registry (config/providers-config.types) ----
    rStatic,           \* STATIC_PROVIDERS
    rEnv,              \* process.env.HIVE_PRICE_PROVIDER_MODULES
    rCustom,           \* customDescriptors, in insertion order
    rFactories,        \* the keys of customFactories, in insertion order
    rRegs,             \* register calls made so far
    rLast,             \* the last call of the registry and its result
    \* ---- one LazyModuleProvider and the getHivePrice calls on it ----
    lExport,           \* does the module export the constructor the descriptor names
    realProvider,      \* this.realProvider: 0 is null, else the number of the instance
    lConstructed,      \* instances constructed so far
    lPc,               \* call -> "idle" | "import" | "price" | "done" | "failed"
    lUses,             \* call -> the instance its provider.getHivePrice() runs on (0: none)
    \* ---- construction of a PriceAggregator and one getAggregatedHivePrice call, by provider count ----
    xArg,              \* the providers argument of the constructor: its length, Null when absent
    xProviders,        \* this.providers.length
    xpc,               \* "none" | "ctorThrew" | "idle" | "round" | "sleep" | "done"
    xAtCall,           \* this.providers.length when getAggregatedHivePrice was called
    xAttempt,          \* attempt
    xRounds,           \* rounds run
    xInvoked,          \* getHivePrice invocations made
    xSleeps,           \* sleeps taken
    xRes,              \* how the call ended
    \* ---- one pair fetch: fetchWithRetry(() => makeRequest(url)) ----
    hRetryAttempts,    \* the provider's this.retryAttempts
    hMaxRetries,       \* the provider's this.maxRetries
    hpc,               \* "idle" | "http" (awaiting fetch) | "dsleep" | "fsleep" | "done"
    hAttempt,          \* attempt of fetchWithRetry
    hDriverAttempt,    \* attempt of executeWithRetry
    hHttp,             \* HTTP calls made in each attempt of fetchWithRetry, in order
    hOnlyNotFound,     \* every HTTP call so far was answered 404
    hLastError,        \* lastError of fetchWithRetry
    hRes,              \* how the pair fetch ended
    \* ---- HiveFeedPriceBot: start() and stop() calls in any interleaving ----
    sIsRunning,        \* this.isRunning
    sIsShuttingDown,   \* this.isShuttingDown
    sIntervalId,       \* this.intervalId: Null, or the start() call whose timer it refers to
    sActive,           \* the interval timers that are armed, by the start() call that armed them
    sStartPc,          \* start() call -> "free" | "init" | "publish" | "returned" | "threw"
    sStopReturned,     \* a stop() call has returned
    sPublishes,        \* publishFeedPrice calls started
    sLatePublishes,    \* publishFeedPrice calls started after a stop() call had returned
    \* ---- FeedPublisher: publishFeedPrice on the publisher's failover wrapper ----
    uHive,             \* this.hive and this.wax are set
    uWallet,           \* this.wallet and this.publicKey are set
    uPc,               \* publishFeedPrice: "idle" | "agg" (awaiting the aggregator) | "broadcast" (awaiting executeWithFailover)
    uPrice,            \* averagePrice of the call, Null before the aggregator returned
    uCalls,            \* publishFeedPrice calls made
    uRes               \* how the last publishFeedPrice call ended

fvars == <<nodes, maxRetries, chain, currentNodeIndex, initPc, initUrl, fpc,
           attempt, lastError, fres, gres, i0, invocations, recovFailures,
           sleeps, delay, opNode>>
avars == <<weightCfg, apc, aAttempt, inflight, entries, exchangePrices,
           timedOut, roundsRun, aSleeps, ares>>
cvars == <<cConfig, cProvidersConfig, cSuccessful, cWeighted, cOut, cpc>>
mvars == <<mProviders, mFn, mpc, mSettled, mInvoked, mOutcome, mRes>>
wvars == <<retryAttempts, retryDelay, wpc, wAttempt, wLastError, wCalls,
           wSleeps, wRes>>
qvars == <<pMaxRetries, qpc, qAttempt, qLastError, qResponses, qThrown,
           qSleeps, qRes>>
bvars == <<isRunning, isShuttingDown, intervalId, startPc, firstPub, pubPc,
           pubAttempt, pubOpNode>>
kvars == <<kMessage, kContext, kpc, kError, kErrContext>>
vvars == <<vData, vOuts>>
gvars == <<gProvider, gRaw, gpc, gOut>>
rvars == <<rStatic, rEnv, rCustom, rFactories, rRegs, rLast>>
lvars == <<lExport, realProvider, lConstructed, lPc, lUses>>
xvars == <<xArg, xProviders, xpc, xAtCall, xAttempt, xRounds, xInvoked,
           xSleeps, xRes>>
hvars == <<hRetryAttempts, hMaxRetries, hpc, hAttempt, hDriverAttempt, hHttp,
           hOnlyNotFound, hLastError, hRes>>
svars == <<sIsRunning, sIsShuttingDown, sIntervalId, sActive, sStartPc,
           sStopReturned, sPublishes, sLatePublishes>>
uvars == <<uHive, uWallet, uPc, uPrice, uCalls, uRes>>
vars == <<fvars, avars, cvars, mvars, wvars, qvars, bvars, kvars, vvars, gvars, rvars, lvars, xvars, hvars, svars, uvars>>
\* what the actions of one component leave alone
notFailover == <<avars, cvars, mvars, wvars, qvars, bvars, kvars, vvars, gvars, rvars, lvars, xvars, hvars, svars, uvars>>
notAgg == <<fvars, cvars, mvars, wvars, qvars, bvars, kvars, vvars, gvars, rvars, lvars, xvars, hvars, svars, uvars>>
notCalc == <<fvars, avars, mvars, wvars, qvars, bvars, kvars, vvars, gvars, rvars, lvars, xvars, hvars, svars, uvars>>
notMap == <<fvars, avars, cvars, wvars, qvars, bvars, kvars, vvars, gvars, rvars, lvars, xvars, hvars, svars, uvars>>
notFetch == <<fvars, avars, cvars, mvars, qvars, bvars, kvars, vvars, gvars, rvars, lvars, xvars, hvars, svars, uvars>>
notReq == <<fvars, avars, cvars, mvars, wvars, bvars, kvars, vvars, gvars, rvars, lvars, xvars, hvars, svars, uvars>>
notBot == <<avars, cvars, mvars, wvars, qvars, kvars, vvars, gvars, rvars, lvars, xvars, hvars, svars, uvars>>
notClassify == <<fvars, avars, cvars, mvars, wvars, qvars, bvars, vvars, gvars, rvars, lvars, xvars, hvars, svars, uvars>>
notValidate == <<fvars, avars, cvars, mvars, wvars, qvars, bvars, kvars, gvars, rvars, lvars, xvars, hvars, svars, uvars>>
notProvider == <<fvars, avars, cvars, mvars, wvars, qvars, bvars, kvars, vvars, rvars, lvars, xvars, hvars, svars, uvars>>
notRegistry == <<fvars, avars, cvars, mvars, wvars, qvars, bvars, kvars, vvars, gvars, lvars, xvars, hvars, svars, uvars>>
notLazy == <<fvars, avars, cvars, mvars, wvars, qvars, bvars, kvars, vvars, gvars, rvars, xvars, hvars, svars, uvars>>
notCtor == <<fvars, avars, cvars, mvars, wvars, qvars, bvars, kvars, vvars, gvars, rvars, lvars, hvars, svars, uvars>>
notPair == <<fvars, avars, cvars, mvars, wvars, qvars, bvars, kvars, vvars, gvars, rvars, lvars, xvars, svars, uvars>>
notLife == <<fvars, avars, cvars, mvars, wvars, qvars, bvars, kvars, vvars, gvars, rvars, lvars, xvars, hvars, uvars>>
notPublisher == <<fvars, avars, cvars, mvars, wvars, qvars, bvars, kvars, vvars, gvars, rvars, lvars, xvars, hvars, svars>>
notPublish == <<avars, cvars, mvars, wvars, qvars, bvars, kvars, vvars, gvars, rvars, lvars, xvars, hvars, svars>>

Null == -1

(***************************************************************************)
(* Errors thrown by the operation handed to executeWithFailover: the       *)
(* constructor name of the thrown value and the attempt that raised it.    *)
(* "NoConstructor" is a thrown null/undefined (error?.constructor?.name    *)
(* is undefined).                                                          *)
(***************************************************************************)
ErrorClasses == {"WaxRequestTimeoutError", "WaxNon_2XX_3XX_ResponseCodeError",
                 "WaxUnknownRequestError", "WaxRequestAbortedByUser",
                 "Error", "NoConstructor"}

NoError == [cls |-> "undefined", id |-> 0]
InitError == [cls |-> "Error: Chain not initialized", id |-> 0]

isRecoverableChainError(error) ==
    error.cls \in {"WaxRequestTimeoutError",
                   "WaxNon_2XX_3XX_ResponseCodeError",
                   "WaxUnknownRequestError"}

Jitters == {0, 99}

Min(a, b) == IF a <= b THEN a ELSE b

BackoffDelay_uncapped(att, jitter) ==
    BaseRetryDelay * (2 ^ att) + jitter

BackoffDelay(att, jitter) ==
    Min(BaseRetryDelay * (2 ^ att) + jitter, MaxRetryDelay)

\* constructor: maxRetries = config.maxRetries ?? nodes.length * 2
DefaultMaxRetries(n) == n * 2

FailoverInit ==
    /\ nodes \in 1..MaxNodes
    /\ maxRetries \in {DefaultMaxRetries(nodes)} \cup (0..MaxRetriesCfg)
    /\ chain = Null
    /\ currentNodeIndex = 0
    /\ initPc = "none"
    /\ initUrl = 0
    /\ fpc = "idle"
    /\ attempt = 0
    /\ lastError = NoError
    /\ fres = [kind |-> "none", val |-> 0, err |-> NoError]
    /\ gres = "none"
    /\ i0 = 0
    /\ invocations = 0
    /\ recovFailures = 0
    /\ sleeps = 0
    /\ delay = 0
    /\ opNode = 0

callHist == <<i0, invocations, recovFailures, sleeps, delay>>

\* initialize(), up to the await of createHiveChain; it is called before
\* first use, and may be called again between two calls
InitializeStart ==
    /\ initPc = "none"
    /\ fpc = "idle"
    /\ initPc' = "pending"
    /\ initUrl' = currentNodeIndex
    /\ UNCHANGED <<nodes, maxRetries, chain, currentNodeIndex, fpc, attempt,
                   lastError, fres, gres, opNode>>
    /\ UNCHANGED callHist

InitializeDone_firstNode ==
    /\ initPc = "pending"
    /\ chain' = 0
    /\ initPc' = "none"
    /\ UNCHANGED <<nodes, maxRetries, currentNodeIndex, initUrl, fpc, attempt,
                   lastError, fres, gres, opNode>>
    /\ UNCHANGED callHist

\* createHiveChain resolved: this.chain = the new chain
InitializeDone ==
    /\ initPc = "pending"
    /\ chain' = initUrl
    /\ initPc' = "none"
    /\ UNCHANGED <<nodes, maxRetries, currentNodeIndex, initUrl, fpc, attempt,
                   lastError, fres, gres, opNode>>
    /\ UNCHANGED callHist

\* createHiveChain rejected: initialize() rejects, this.chain stays null
InitializeFail ==
    /\ initPc = "pending"
    /\ initPc' = "none"
    /\ UNCHANGED <<nodes, maxRetries, chain, currentNodeIndex, initUrl, fpc,
                   attempt, lastError, fres, gres, opNode>>
    /\ UNCHANGED callHist

GetChain ==
    /\ fpc = "idle"
    /\ gres' = IF chain = Null THEN "initerr" ELSE "chain"
    /\ UNCHANGED <<nodes, maxRetries, chain, currentNodeIndex, initPc, initUrl,
                   fpc, attempt, lastError, fres, opNode>>
    /\ UNCHANGED callHist

ExecNotInitialized_runs ==
    /\ fpc = "idle"
    /\ chain = Null
    /\ fres' = [kind |-> "pending", val |-> 0, err |-> NoError]
    /\ i0' = currentNodeIndex
    /\ invocations' = 1
    /\ recovFailures' = 0
    /\ sleeps' = 0
    /\ delay' = 0
    /\ fpc' = "op"
    /\ attempt' = 0
    /\ UNCHANGED <<nodes, maxRetries, chain, currentNodeIndex, initPc, initUrl,
                   lastError, gres, opNode>>

\* executeWithFailover called on a wrapper whose chain is null
ExecNotInitialized ==
    /\ fpc = "idle"
    /\ chain = Null
    /\ fres' = [kind |-> "initerr", val |-> 0, err |-> InitError]
    /\ i0' = currentNodeIndex
    /\ invocations' = 0
    /\ recovFailures' = 0
    /\ sleeps' = 0
    /\ delay' = 0
    /\ UNCHANGED <<nodes, maxRetries, chain, currentNodeIndex, initPc, initUrl,
                   fpc, attempt, lastError, gres, opNode>>

\* executeWithFailover called: the loop test and the first invocation
\* (the caller has awaited a renewed initialize() first)
ExecStart ==
    /\ fpc = "idle"
    /\ chain # Null
    /\ initPc = "none"
    /\ attempt' = 0
    /\ lastError' = NoError
    /\ i0' = currentNodeIndex
    /\ recovFailures' = 0
    /\ sleeps' = 0
    /\ delay' = 0
    /\ IF 0 < maxRetries
         THEN /\ fpc' = "op"
              /\ invocations' = 1
              /\ opNode' = chain
              /\ fres' = [kind |-> "pending", val |-> 0, err |-> NoError]
         ELSE /\ fpc' = "idle"
              /\ invocations' = 0
              /\ opNode' = opNode
              /\ fres' = [kind |-> "err", val |-> 0, err |-> NoError]
    /\ UNCHANGED <<nodes, maxRetries, chain, currentNodeIndex, initPc, initUrl,
                   gres>>

\* the operation resolved: return result
OpSucceeds_reset ==
    /\ fpc = "op"
    /\ fpc' = "idle"
    /\ fres' = [kind |-> "ok", val |-> invocations, err |-> NoError]
    /\ currentNodeIndex' = 0
    /\ UNCHANGED <<nodes, maxRetries, chain, initPc, initUrl,
                   attempt, lastError, gres, opNode>>
    /\ UNCHANGED callHist

OpSucceeds ==
    /\ fpc = "op"
    /\ fpc' = "idle"
    /\ fres' = [kind |-> "ok", val |-> invocations, err |-> NoError]
    /\ UNCHANGED <<nodes, maxRetries, chain, currentNodeIndex, initPc, initUrl,
                   attempt, lastError, gres, opNode>>
    /\ UNCHANGED callHist

\* the operation rejected with a non-recoverable error: throw error
OpFailsNonRecoverable_rotate ==
    /\ fpc = "op"
    /\ \E cls \in ErrorClasses :
         LET error == [cls |-> cls, id |-> invocations] IN
         /\ ~isRecoverableChainError(error)
         /\ lastError' = error
         /\ fres' = [kind |-> "err", val |-> 0, err |-> error]
    /\ fpc' = "idle"
    /\ currentNodeIndex' = (currentNodeIndex + 1) % nodes
    /\ chain' = currentNodeIndex'
    /\ UNCHANGED <<nodes, maxRetries, initPc, initUrl, attempt, gres, opNode>>
    /\ UNCHANGED callHist

OpFailsNonRecoverable ==
    /\ fpc = "op"
    /\ \E cls \in ErrorClasses :
         LET error == [cls |-> cls, id |-> invocations] IN
         /\ ~isRecoverableChainError(error)
         /\ lastError' = error
         /\ fres' = [kind |-> "err", val |-> 0, err |-> error]
    /\ fpc' = "idle"
    /\ UNCHANGED <<nodes, maxRetries, chain, currentNodeIndex, initPc, initUrl,
                   attempt, gres, opNode>>
    /\ UNCHANGED callHist

switchToNextNode_skip ==
    /\ currentNodeIndex' = (currentNodeIndex + 2) % nodes
    /\ chain' = currentNodeIndex'

\* switchToNextNode
switchToNextNode ==
    /\ currentNodeIndex' = (currentNodeIndex + 1) % nodes
    /\ chain' = currentNodeIndex'

OpFailsRecoverableRetry_noRotate ==
    /\ fpc = "op"
    /\ \E cls \in ErrorClasses :
         LET error == [cls |-> cls, id |-> invocations] IN
         /\ isRecoverableChainError(error)
         /\ lastError' = error
    /\ attempt' = attempt + 1
    /\ attempt' < maxRetries
    /\ recovFailures' = recovFailures + 1
    /\ \E jitter \in Jitters : delay' = BackoffDelay(attempt', jitter)
    /\ sleeps' = sleeps + 1
    /\ fpc' = "sleep"
    /\ UNCHANGED <<nodes, maxRetries, initPc, initUrl, fres, gres, i0,
                   invocations, opNode, chain, currentNodeIndex>>

\* the operation rejected with a recoverable error and attempts remain:
\* attempt++, switchToNextNode, start the backoff sleep
OpFailsRecoverableRetry ==
    /\ fpc = "op"
    /\ \E cls \in ErrorClasses :
         LET error == [cls |-> cls, id |-> invocations] IN
         /\ isRecoverableChainError(error)
         /\ lastError' = error
    /\ attempt' = attempt + 1
    /\ attempt' < maxRetries
    /\ recovFailures' = recovFailures + 1
    /\ switchToNextNode
    /\ \E jitter \in Jitters : delay' = BackoffDelay(attempt', jitter)
    /\ sleeps' = sleeps + 1
    /\ fpc' = "sleep"
    /\ UNCHANGED <<nodes, maxRetries, initPc, initUrl, fres, gres, i0,
                   invocations, opNode>>

OpFailsRecoverableExhausted_early ==
    /\ fpc = "op"
    /\ \E cls \in ErrorClasses :
         LET error == [cls |-> cls, id |-> invocations] IN
         /\ isRecoverableChainError(error)
         /\ lastError' = error
         /\ fres' = [kind |-> "err", val |-> 0, err |-> error]
    /\ attempt' = attempt + 1
    /\ ~(attempt' < maxRetries - 1)
    /\ recovFailures' = recovFailures + 1
    /\ fpc' = "idle"
    /\ UNCHANGED <<nodes, maxRetries, chain, currentNodeIndex, initPc, initUrl,
                   gres, i0, invocations, sleeps, delay, opNode>>

\* the operation rejected with a recoverable error on the last attempt:
\* attempt++, the loop ends, throw lastError
OpFailsRecoverableExhausted ==
    /\ fpc = "op"
    /\ \E cls \in ErrorClasses :
         LET error == [cls |-> cls, id |-> invocations] IN
         /\ isRecoverableChainError(error)
         /\ lastError' = error
         /\ fres' = [kind |-> "err", val |-> 0, err |-> error]
    /\ attempt' = attempt + 1
    /\ ~(attempt' < maxRetries)
    /\ recovFailures' = recovFailures + 1
    /\ fpc' = "idle"
    /\ UNCHANGED <<nodes, maxRetries, chain, currentNodeIndex, initPc, initUrl,
                   gres, i0, invocations, sleeps, delay, opNode>>

\* the backoff sleep is over: the loop test and the next invocation
SleepDone ==
    /\ fpc = "sleep"
    /\ attempt < maxRetries
    /\ fpc' = "op"
    /\ invocations' = invocations + 1
    /\ opNode' = chain
    /\ UNCHANGED <<nodes, maxRetries, chain, currentNodeIndex, initPc, initUrl,
                   attempt, lastError, fres, gres, i0, recovFailures, sleeps,
                   delay>>

(***************************************************************************)
(* PriceAggregator                                                         *)
(***************************************************************************)
Providers == 1..NumProviders

\* configured weights; <<>> is a provider with no entry in providersConfig
\* (it gets 1.0, as a configured 1.0 would)
Weights == {-1, 0, 2}
WeightCfgs == {<<>>} \cup {<<w>> : w \in Weights}

\* what a provider's getHivePrice can resolve with, in thousandths: 9.000,
\* and 12000.000, which a provider that returns parseFloat of the exchange's
\* text unvalidated can resolve with; 0 is a value that isValidPrice rejects
Prices == {9000, 12000000}
ReturnedValues == Prices \cup {0}
Outcomes == [kind : {"value"}, v : ReturnedValues] \cup [kind : {"throw"}, v : {0}]

Pending(p) == [exchange |-> p, price |-> 0, success |-> FALSE, error |-> "pending"]

\* Number.NaN: a number that compares false with every number
NaN == 0 - 999
isNaN(x) == x = NaN

\* typeof price === "number" && price > 0 && !isNaN(price), for a number
isValidPrice(price) == price > 0 /\ ~isNaN(price)

\* error instanceof Error ? error.message : "Unknown error"; a thrown value
\* with v = 1 is not an Error
ErrorText(outcome) ==
    IF outcome.kind = "throw" /\ outcome.v = 1 THEN "Unknown error" ELSE "message"

ToExchangePrice_noValidation(p, outcome) ==
    IF outcome.kind = "value"
      THEN [exchange |-> p, price |-> outcome.v, success |-> TRUE, error |-> "none"]
      ELSE [exchange |-> p, price |-> 0, success |-> FALSE,
            error |-> ErrorText(outcome)]

\* the ExchangePrice the per-provider wrapper of mapProvidersToExchangePrices
\* resolves with; "message" is the text of the caught error ("Invalid price
\* received: ..." for a rejected value, else the provider error's message)
ToExchangePrice(p, outcome) ==
    IF outcome.kind = "value" /\ isValidPrice(outcome.v)
      THEN [exchange |-> p, price |-> outcome.v, success |-> TRUE, error |-> "none"]
      ELSE [exchange |-> p, price |-> 0, success |-> FALSE,
            error |-> ErrorText(outcome)]

CollectedOf_dropFailed(ents) ==
    SelectSeq([p \in Providers |-> ents[p]], LAMBDA ep : ep.success)

\* results.map(...) of Promise.allSettled: one entry per provider, in order
CollectedOf(ents) == [p \in Providers |-> ents[p]]

IsSuccess(ep) == ep.success

\* exchangePrices.filter((ep) => ep.success)
Successful(eps) == SelectSeq(eps, IsSuccess)

\* A name is a number: k is the lower-case spelling of the k-th name, 0 - k a
\* spelling of it with capitals.
toLowerCase(name) == IF name < 0 THEN 0 - name ELSE name

\* applyWeights: config?.weight || 1.0
WeightOf(cfg, ep) ==
    LET c == cfg[toLowerCase(ep.exchange)] IN
    IF c = <<>> THEN 1 ELSE IF c[1] = 0 THEN 1 ELSE c[1]

RECURSIVE SumWeights(_, _)
SumWeights(cfg, eps) ==
    IF eps = <<>> THEN 0 ELSE WeightOf(cfg, Head(eps)) + SumWeights(cfg, Tail(eps))

RECURSIVE SumWeighted(_, _)
SumWeighted(cfg, eps) ==
    IF eps = <<>> THEN 0
    ELSE Head(eps).price * WeightOf(cfg, Head(eps)) + SumWeighted(cfg, Tail(eps))

RECURSIVE SumPrices(_)
SumPrices(eps) ==
    IF eps = <<>> THEN 0 ELSE Head(eps).price + SumPrices(Tail(eps))

\* roundToThreeDecimals of the quotient num/den of two integers (den # 0),
\* in thousandths: the nearest integer, halves upwards (Math.round)
RoundDiv(num, den) ==
    IF den > 0 THEN (2 * num + den) \div (2 * den)
               ELSE (2 * (0 - num) + (0 - den)) \div (2 * (0 - den))

hasWeights_configured(cfg, eps) ==
    \E k \in DOMAIN cfg : cfg[k] # <<>> /\ cfg[k] # <<0>> /\ cfg[k] # <<1>>

hasWeights(cfg, eps) == \E i \in 1..Len(eps) : WeightOf(cfg, eps[i]) # 1

\* calculateFinalPrice throws (WeightedPriceCalculator: "Total weight cannot
\* be zero", or no successful price)
CombinationThrows(cfg, eps) ==
    \/ eps = <<>>
    \/ hasWeights(cfg, eps) /\ SumWeights(cfg, eps) = 0

RECURSIVE SumRoundedParts(_, _)
SumRoundedParts(eps, k) ==
    IF eps = <<>> THEN 0
    ELSE RoundDiv(Head(eps).price, k) + SumRoundedParts(Tail(eps), k)

calculateFinalPrice_perEntry(cfg, eps) ==
    IF hasWeights(cfg, eps)
      THEN RoundDiv(SumWeighted(cfg, eps), Len(eps))
      ELSE RoundDiv(SumPrices(eps), Len(eps))

calculateFinalPrice_roundParts(cfg, eps) ==
    IF hasWeights(cfg, eps)
      THEN RoundDiv(SumWeighted(cfg, eps), SumWeights(cfg, eps))
      ELSE SumRoundedParts(eps, Len(eps))

\* calculateFinalPrice when it does not throw
calculateFinalPrice(cfg, eps) ==
    IF hasWeights(cfg, eps)
      THEN RoundDiv(SumWeighted(cfg, eps), SumWeights(cfg, eps))
      ELSE RoundDiv(SumPrices(eps), Len(eps))

NoResult == [kind |-> "none", price |-> 0, round |-> 0]

AggInit ==
    /\ weightCfg \in [Providers -> WeightCfgs]
    /\ apc = "idle"
    /\ aAttempt = 0
    /\ inflight = {}
    /\ entries = [p \in Providers |-> Pending(p)]
    /\ exchangePrices = <<>>
    /\ timedOut = {}
    /\ roundsRun = 0
    /\ aSleeps = <<>>
    /\ ares = NoResult

\* fetchPricesWithTimeout called in round r: every provider's getHivePrice
\* is invoked and the deadline timer is armed
StartRound(r) ==
    /\ apc' = "round"
    /\ aAttempt' = r
    /\ inflight' = inflight \cup {<<p, r>> : p \in Providers}
    /\ entries' = [p \in Providers |-> Pending(p)]
    /\ exchangePrices' = <<>>
    /\ roundsRun' = roundsRun + 1

FinishRound_flatDelay(result) ==
    LET successfulPrices == Successful(result) IN
    /\ exchangePrices' = result
    /\ IF successfulPrices # <<>> /\ ~CombinationThrows(weightCfg, successfulPrices)
         THEN /\ ares' = [kind |-> "ok",
                          price |-> calculateFinalPrice(weightCfg, successfulPrices),
                          round |-> aAttempt]
              /\ apc' = "done"
              /\ UNCHANGED <<aAttempt, aSleeps>>
         ELSE IF aAttempt < AggMaxRetries
           THEN /\ aSleeps' = Append(aSleeps, AggRetryDelayUnit)
                /\ apc' = "sleep"
                /\ UNCHANGED <<aAttempt, ares>>
           ELSE /\ aAttempt' = aAttempt + 1
                /\ apc' = "done"
                /\ ares' = [kind |-> "err", price |-> 0, round |-> AggMaxRetries]
                /\ UNCHANGED aSleeps

FinishRound_allEntries(result) ==
    /\ exchangePrices' = result
    /\ IF Successful(result) # <<>> /\ ~CombinationThrows(weightCfg, result)
         THEN /\ ares' = [kind |-> "ok",
                          price |-> calculateFinalPrice(weightCfg, result),
                          round |-> aAttempt]
              /\ apc' = "done"
              /\ UNCHANGED <<aAttempt, aSleeps>>
         ELSE IF aAttempt < AggMaxRetries
           THEN /\ aSleeps' = Append(aSleeps, AggRetryDelayUnit * aAttempt)
                /\ apc' = "sleep"
                /\ UNCHANGED <<aAttempt, ares>>
           ELSE /\ aAttempt' = aAttempt + 1
                /\ apc' = "done"
                /\ ares' = [kind |-> "err", price |-> 0, round |-> AggMaxRetries]
                /\ UNCHANGED aSleeps

FinishRound_throwEscapes(result) ==
    LET successfulPrices == Successful(result) IN
    /\ exchangePrices' = result
    /\ IF successfulPrices # <<>> /\ ~CombinationThrows(weightCfg, successfulPrices)
         THEN /\ ares' = [kind |-> "ok",
                          price |-> calculateFinalPrice(weightCfg, successfulPrices),
                          round |-> aAttempt]
              /\ apc' = "done"
              /\ UNCHANGED <<aAttempt, aSleeps>>
         ELSE IF successfulPrices # <<>>
           THEN /\ ares' = [kind |-> "thrown", price |-> 0, round |-> aAttempt]
                /\ apc' = "done"
                /\ UNCHANGED <<aAttempt, aSleeps>>
         ELSE IF aAttempt < AggMaxRetries
           THEN /\ aSleeps' = Append(aSleeps, AggRetryDelayUnit * aAttempt)
                /\ apc' = "sleep"
                /\ UNCHANGED <<aAttempt, ares>>
           ELSE /\ aAttempt' = aAttempt + 1
                /\ apc' = "done"
                /\ ares' = [kind |-> "err", price |-> 0, round |-> AggMaxRetries]
                /\ UNCHANGED aSleeps

\* the rest of the loop body once fetchPricesWithTimeout resolved with result
FinishRound(result) ==
    LET successfulPrices == Successful(result) IN
    /\ exchangePrices' = result
    /\ IF successfulPrices # <<>> /\ ~CombinationThrows(weightCfg, successfulPrices)
         THEN /\ ares' = [kind |-> "ok",
                          price |-> calculateFinalPrice(weightCfg, successfulPrices),
                          round |-> aAttempt]
              /\ apc' = "done"
              /\ UNCHANGED <<aAttempt, aSleeps>>
         ELSE IF aAttempt < AggMaxRetries
           THEN /\ aSleeps' = Append(aSleeps, AggRetryDelayUnit * aAttempt)
                /\ apc' = "sleep"
                /\ UNCHANGED <<aAttempt, ares>>
           ELSE /\ aAttempt' = aAttempt + 1
                /\ apc' = "done"
                /\ ares' = [kind |-> "err", price |-> 0, round |-> AggMaxRetries]
                /\ UNCHANGED aSleeps

\* getAggregatedHivePrice called
AggStart ==
    /\ apc = "idle"
    /\ IF NumProviders = 0
         THEN /\ apc' = "done"
              /\ ares' = [kind |-> "noproviders", price |-> 0, round |-> 0]
              /\ UNCHANGED <<aAttempt, inflight, entries, exchangePrices,
                             roundsRun>>
         ELSE /\ StartRound(1)
              /\ UNCHANGED ares
    /\ UNCHANGED <<weightCfg, timedOut, aSleeps>>

ProviderSettles_finishEarly ==
    /\ apc = "round"
    /\ \E p \in Providers, o \in Outcomes :
         /\ <<p, aAttempt>> \in inflight
         /\ \E q \in Providers \ {p} : <<q, aAttempt>> \in inflight
         /\ inflight' = inflight \ {<<p, aAttempt>>}
         /\ entries' = [entries EXCEPT ![p] = ToExchangePrice(p, o)]
         /\ FinishRound(<<entries'[p]>>)
    /\ UNCHANGED <<weightCfg, timedOut, roundsRun>>

\* a provider of the running round settles while others are still pending
ProviderSettles ==
    /\ apc = "round"
    /\ \E p \in Providers, o \in Outcomes :
         /\ <<p, aAttempt>> \in inflight
         /\ \E q \in Providers \ {p} : <<q, aAttempt>> \in inflight
         /\ inflight' = inflight \ {<<p, aAttempt>>}
         /\ entries' = [entries EXCEPT ![p] = ToExchangePrice(p, o)]
    /\ UNCHANGED <<weightCfg, apc, aAttempt, exchangePrices, timedOut,
                   roundsRun, aSleeps, ares>>

\* the last pending provider of the running round settles: Promise.allSettled
\* resolves, wins the race, and the loop body runs on
LastProviderSettles ==
    /\ apc = "round"
    /\ \E p \in Providers, o \in Outcomes :
         /\ <<p, aAttempt>> \in inflight
         /\ \A q \in Providers \ {p} : <<q, aAttempt>> \notin inflight
         /\ inflight' = inflight \ {<<p, aAttempt>>}
         /\ entries' = [entries EXCEPT ![p] = ToExchangePrice(p, o)]
         /\ FinishRound(CollectedOf(entries'))
    /\ UNCHANGED <<weightCfg, timedOut, roundsRun>>

DeadlineWins_partial ==
    /\ apc = "round"
    /\ \E p \in Providers : <<p, aAttempt>> \in inflight
    /\ timedOut' = timedOut \cup {aAttempt}
    /\ FinishRound(CollectedOf(entries))
    /\ UNCHANGED <<weightCfg, inflight, entries, roundsRun>>

\* the deadline timer fires while a provider of the round is still pending:
\* the race resolves with null and fetchPricesWithTimeout returns []
DeadlineWins ==
    /\ apc = "round"
    /\ \E p \in Providers : <<p, aAttempt>> \in inflight
    /\ timedOut' = timedOut \cup {aAttempt}
    /\ FinishRound(<<>>)
    /\ UNCHANGED <<weightCfg, inflight, entries, roundsRun>>

\* an invocation of a round that is no longer awaited settles: nobody reads it
StaleSettles ==
    /\ \E pr \in inflight :
         /\ apc # "round" \/ pr[2] # aAttempt
         /\ inflight' = inflight \ {pr}
    /\ UNCHANGED <<weightCfg, apc, aAttempt, entries, exchangePrices, timedOut,
                   roundsRun, aSleeps, ares>>

AggSleepDone_sameAttempt ==
    /\ apc = "sleep"
    /\ StartRound(aAttempt)
    /\ UNCHANGED <<weightCfg, timedOut, aSleeps, ares>>

\* the inter-round sleep is over: attempt++, the loop test, the next round
AggSleepDone ==
    /\ apc = "sleep"
    /\ aAttempt + 1 <= AggMaxRetries
    /\ StartRound(aAttempt + 1)
    /\ UNCHANGED <<weightCfg, timedOut, aSleeps, ares>>

(***************************************************************************)
(* PriceAggregator: the constructor and calculateFinalPrice on their own,  *)
(* for up to MaxEntries successful entries                                 *)
(***************************************************************************)
CalcKeys == 1..MaxEntries
CalcPrices == {9999, 10000, 10002}

\* the constructor's configArray.forEach: providersConfig.set(
\* cfg.name.toLowerCase(), cfg), a later element replacing an earlier one
providersConfigOf(config) ==
    [k \in CalcKeys |->
        LET idx == {i \in 1..Len(config) : toLowerCase(config[i].name) = k}
        IN IF idx = {} THEN <<>>
           ELSE <<config[CHOOSE i \in idx : \A j \in idx : j <= i].weight>>]

\* applyWeights: each entry with the weight looked up for its exchange
applyWeights(cfg, eps) ==
    [i \in 1..Len(eps) |->
        [exchange |-> eps[i].exchange, price |-> eps[i].price,
         success |-> eps[i].success, weight |-> WeightOf(cfg, eps[i])]]

\* the ProviderConfig[] that configures weight w[k] for the k-th name when
\* w[k] is not <<>>, the names spelled with capitals or without
ConfigOf(w, caps) ==
    LET ks == SelectSeq([k \in 1..Len(w) |-> k], LAMBDA k : w[k] # <<>>)
    IN [i \in 1..Len(ks) |->
          [name |-> IF caps THEN 0 - ks[i] ELSE ks[i], weight |-> w[ks[i]][1]]]

NoOut == [kind |-> "none", price |-> 0, method |-> "none"]

\* n providers, of which those with pr[k] = 0 failed in the round; the
\* others are the successfulPrices, in provider order
CalcInit ==
    /\ \E n \in 1..MaxEntries, capsCfg \in BOOLEAN, capsEx \in BOOLEAN :
         \E w \in [1..n -> WeightCfgs], pr \in [1..n -> CalcPrices \cup {0}] :
            /\ \E k \in 1..n : pr[k] # 0
            /\ cConfig = ConfigOf(w, capsCfg)
            /\ cSuccessful =
                  Successful(
                    [k \in 1..n |->
                       [exchange |-> IF capsEx THEN 0 - k ELSE k, price |-> pr[k],
                        success |-> pr[k] # 0, error |-> "none"]])
    /\ cProvidersConfig = [k \in CalcKeys |-> <<>>]
    /\ cWeighted = <<>>
    /\ cOut = NoOut
    /\ cpc = "new"

\* new PriceAggregator(providers, config)
CalcConstruct ==
    /\ cpc = "new"
    /\ cProvidersConfig' = providersConfigOf(cConfig)
    /\ cpc' = "ready"
    /\ UNCHANGED <<cConfig, cSuccessful, cWeighted, cOut>>

\* calculateFinalPrice(successfulPrices)
CalcFinalPrice ==
    /\ cpc = "ready"
    /\ cWeighted' = applyWeights(cProvidersConfig, cSuccessful)
    /\ cOut' = [kind |-> IF CombinationThrows(cProvidersConfig, cSuccessful)
                            THEN "throw" ELSE "ok",
                 price |-> IF CombinationThrows(cProvidersConfig, cSuccessful)
                             THEN 0
                             ELSE calculateFinalPrice(cProvidersConfig, cSuccessful),
                 method |-> IF hasWeights(cProvidersConfig, cSuccessful)
                              THEN "weighted" ELSE "plain"]
    /\ cpc' = "done"
    /\ UNCHANGED <<cConfig, cProvidersConfig, cSuccessful>>

(***************************************************************************)
(* mapProvidersToExchangePrices and mapProvidersToDetailedPrices, one call *)
(* of either over a providers array whose elements may be proper providers,*)
(* providers with an empty exchangeName, or null                           *)
(***************************************************************************)
ProviderKinds == {"ok", "noname", "null"}
\* the exchange "Unknown" and the empty exchangeName
Unknown == 0
EmptyName == 1000

MapValues == {10500, 0, 0 - 1, NaN}
MapOutcomes == [kind : {"value"}, v : MapValues] \cup [kind : {"throw"}, v : {0, 1}]
NoOutcome == [kind |-> "none", v |-> 0]

Fulfilled(entry) == [status |-> "fulfilled", value |-> entry]
Rejected == [status |-> "rejected", value |-> Pending(Unknown)]
StillPending == [status |-> "pending", value |-> Pending(Unknown)]

\* the per-provider wrapper of mapProvidersToDetailedPrices once getHivePrice
\* settled: no validation of the value
ToDetailedPrice(name, outcome) ==
    IF outcome.kind = "value"
      THEN [exchange |-> name, price |-> outcome.v, success |-> TRUE, error |-> "none"]
      ELSE [exchange |-> name, price |-> 0, success |-> FALSE,
            error |-> ErrorText(outcome)]

\* does the wrapper reach provider.getHivePrice()
Invokes(fn, kind) ==
    IF fn = "exchange" THEN kind = "ok" ELSE kind # "null"

\* how a wrapper that does not reach getHivePrice settles: a null provider
\* makes the catch block itself throw (provider.exchangeName), a provider
\* without exchangeName fails the check of mapProvidersToExchangePrices
WithoutCall(fn, kind) ==
    IF kind = "null" THEN Rejected
    ELSE Fulfilled([exchange |-> Unknown, price |-> 0, success |-> FALSE,
                    error |-> "Invalid provider configuration"])

\* how a wrapper settles once getHivePrice settled with outcome
AfterCall(fn, kind, p, outcome) ==
    IF fn = "exchange" THEN Fulfilled(ToExchangePrice(p, outcome))
    ELSE Fulfilled(ToDetailedPrice(IF kind = "ok" THEN p ELSE EmptyName, outcome))

\* results.map(...): a rejected wrapper becomes the "Promise rejected" entry
FromSettled(r) ==
    IF r.status = "fulfilled" THEN r.value
    ELSE [exchange |-> Unknown, price |-> 0, success |-> FALSE,
          error |-> "Promise rejected"]

NoMapResult == [kind |-> "none", entries |-> <<>>]

MapInit ==
    /\ mProviders \in [Providers -> ProviderKinds]
    /\ mFn = "none"
    /\ mpc = "idle"
    /\ mSettled = [p \in Providers |-> StillPending]
    /\ mInvoked = [p \in Providers |-> 0]
    /\ mOutcome = [p \in Providers |-> NoOutcome]
    /\ mRes = NoMapResult

\* the call: providers.map starts every wrapper, each up to its first await
MapCall ==
    /\ mpc = "idle"
    /\ \E fn \in {"exchange", "detailed"} :
          /\ mFn' = fn
          /\ mSettled' = [p \in Providers |->
                             IF Invokes(fn, mProviders[p]) THEN StillPending
                             ELSE WithoutCall(fn, mProviders[p])]
          /\ mInvoked' = [p \in Providers |->
                             IF Invokes(fn, mProviders[p]) THEN 1 ELSE 0]
    /\ mpc' = "waiting"
    /\ UNCHANGED <<mProviders, mOutcome, mRes>>

\* a provider's getHivePrice settles and its wrapper with it
MapProviderSettles ==
    /\ mpc = "waiting"
    /\ \E p \in Providers, outcome \in MapOutcomes :
          /\ mSettled[p].status = "pending"
          /\ mOutcome' = [mOutcome EXCEPT ![p] = outcome]
          /\ mSettled' = [mSettled EXCEPT
                             ![p] = AfterCall(mFn, mProviders[p], p, outcome)]
    /\ UNCHANGED <<mProviders, mFn, mpc, mInvoked, mRes>>

MapResolve_rejects ==
    /\ mpc = "waiting"
    /\ \A p \in Providers : mSettled[p].status # "pending"
    /\ mRes' = IF \E p \in Providers : ~FromSettled(mSettled[p]).success
                 THEN [kind |-> "throw", entries |-> <<>>]
                 ELSE [kind |-> "entries",
                       entries |-> [p \in Providers |-> FromSettled(mSettled[p])]]
    /\ mpc' = "done"
    /\ UNCHANGED <<mProviders, mFn, mSettled, mInvoked, mOutcome>>

\* Promise.allSettled resolved: results.map(...) and the return
MapResolve ==
    /\ mpc = "waiting"
    /\ \A p \in Providers : mSettled[p].status # "pending"
    /\ mRes' = [kind |-> "entries",
                 entries |-> [p \in Providers |-> FromSettled(mSettled[p])]]
    /\ mpc' = "done"
    /\ UNCHANGED <<mProviders, mFn, mSettled, mInvoked, mOutcome>>

(***************************************************************************)
(* PriceProvider.fetchWithRetry: one call                                  *)
(***************************************************************************)
RetryDelays == {DefaultRetryDelay, 250}
\* what fetchFn resolves with, and the errors it rejects with
FetchValues == {10500, 9000}
FetchErrors == {1, 2}
\* new Error(`All attempts failed for ...`)
AllAttemptsFailed == 3

NoFetchResult == [kind |-> "none", val |-> 0]

FetchInit ==
    /\ retryAttempts \in 0..MaxAttempts
    /\ retryDelay \in RetryDelays
    /\ wpc = "idle"
    /\ wAttempt = 0
    /\ wLastError = 0
    /\ wCalls = <<>>
    /\ wSleeps = <<>>
    /\ wRes = NoFetchResult

\* throw lastError || new Error(...)
ThrowLast(err) ==
    [kind |-> "err", val |-> IF err # 0 THEN err ELSE AllAttemptsFailed]

\* fetchWithRetry(fetchFn) called: attempt = 1, the loop test, fetchFn()
FetchCall ==
    /\ wpc = "idle"
    /\ wAttempt' = 1
    /\ IF 1 <= retryAttempts
         THEN wpc' = "fetch" /\ UNCHANGED wRes
         ELSE wpc' = "done" /\ wRes' = ThrowLast(wLastError)
    /\ UNCHANGED <<retryAttempts, retryDelay, wLastError, wCalls, wSleeps>>

\* fetchFn resolved: return await fetchFn()
FetchSucceeds ==
    /\ wpc = "fetch"
    /\ \E v \in FetchValues :
          /\ wCalls' = Append(wCalls, [kind |-> "ok", val |-> v])
          /\ wRes' = [kind |-> "ok", val |-> v]
    /\ wpc' = "done"
    /\ UNCHANGED <<retryAttempts, retryDelay, wAttempt, wLastError, wSleeps>>

FetchFails_sleepAlways ==
    /\ wpc = "fetch"
    /\ \E e \in FetchErrors :
          /\ wCalls' = Append(wCalls, [kind |-> "err", val |-> e])
          /\ wLastError' = e
          /\ wSleeps' = Append(wSleeps, retryDelay * (2 ^ (wAttempt - 1)))
          /\ IF wAttempt < retryAttempts
               THEN wpc' = "sleep" /\ UNCHANGED <<wAttempt, wRes>>
               ELSE /\ wAttempt' = wAttempt + 1
                    /\ wpc' = "done"
                    /\ wRes' = ThrowLast(e)
    /\ UNCHANGED <<retryAttempts, retryDelay>>

\* fetchFn rejected: the catch block, and after the last attempt the throw
FetchFails ==
    /\ wpc = "fetch"
    /\ \E e \in FetchErrors :
          /\ wCalls' = Append(wCalls, [kind |-> "err", val |-> e])
          /\ wLastError' = e
          /\ IF wAttempt < retryAttempts
               THEN /\ wSleeps' = Append(wSleeps, retryDelay * (2 ^ (wAttempt - 1)))
                    /\ wpc' = "sleep"
                    /\ UNCHANGED <<wAttempt, wRes>>
               ELSE /\ wAttempt' = wAttempt + 1
                    /\ wpc' = "done"
                    /\ wRes' = ThrowLast(e)
                    /\ UNCHANGED wSleeps
    /\ UNCHANGED <<retryAttempts, retryDelay>>

\* the sleep is over: attempt++, the loop test (true), fetchFn()
FetchSleepDone ==
    /\ wpc = "sleep"
    /\ wAttempt' = wAttempt + 1
    /\ wpc' = "fetch"
    /\ UNCHANGED <<retryAttempts, retryDelay, wLastError, wCalls, wSleeps, wRes>>

(***************************************************************************)
(* PriceProvider.makeRequest: DomainAwareErrorHandler.executeWithRetry     *)
(* around one HTTP request, and the price-domain errors                    *)
(*                                                                         *)
(* A message is its text, the substrings that createPriceError looks for   *)
(* and the text contains (marks), and what extractHttpStatus and           *)
(* extractRetryAfter match in it (Null: no match).  String.includes is      *)
(* case-sensitive.                                                         *)
(***************************************************************************)
Message(text, marks) ==
    [text |-> text, marks |-> marks, status |-> Null, after |-> Null]

\* the messages of the errors thrown inside makeRequest's operation, with
\* the status texts of the standard reason phrases ("Internal Server
\* Error", "Bad Request", ...), and of fetch's own network failure
MsgRateLimit == Message("Rate limit exceeded", {})
MsgServerError == Message("Server error: <statusText>", {})
MsgNotFound == Message("Resource not found: <url>", {})
MsgHttpError == Message("HTTP error: <status> <statusText>", {})
MsgInvalidJson == Message("Invalid JSON response", {})
MsgTimeout == Message("Request timeout after <requestTimeout>ms", {"timeout"})
MsgFetchFailed == Message("fetch failed", {"failed"})

\* new PriceNetworkError(message, code, context)
PriceNetworkError(text, code) ==
    [cls |-> "PriceNetworkError", code |-> code, httpStatus |-> Null,
     retryAfter |-> Null, message |-> text]

\* new PriceAPIError(message, code, {httpStatus, retryAfter}); Null is
\* undefined
PriceAPIError(text, code, httpStatus, after) ==
    [cls |-> "PriceAPIError", code |-> code, httpStatus |-> httpStatus,
     retryAfter |-> after, message |-> text]

\* an error that is not a BaseAppError
RawError(text) ==
    [cls |-> "TypeError", code |-> "none", httpStatus |-> Null,
     retryAfter |-> Null, message |-> text]

NoPriceError ==
    [cls |-> "none", code |-> "none", httpStatus |-> Null, retryAfter |-> Null,
     message |-> Message("", {})]

isRetryable(e) ==
    IF e.cls = "PriceNetworkError" THEN e.code # "PRICE_NETWORK_UNREACHABLE"
    ELSE e.code \in {"PRICE_API_RATE_LIMITED", "PRICE_API_SERVER_ERROR"}

getRetryDelay(e) ==
    IF e.cls = "PriceNetworkError"
      THEN 1000 * (IF e.code = "PRICE_NETWORK_TIMEOUT" THEN 2
                   ELSE IF e.code = "PRICE_NETWORK_CONNECTION_FAILED" THEN 3
                   ELSE 0)
    ELSE IF e.code = "PRICE_API_RATE_LIMITED" /\ e.retryAfter # Null
                /\ e.retryAfter # 0
      THEN e.retryAfter * 1000
    ELSE IF e.code = "PRICE_API_RATE_LIMITED" THEN 5000
    ELSE IF e.code = "PRICE_API_SERVER_ERROR" THEN 3000
    ELSE 0

includes(message, mark) == mark \in message.marks
extractRetryAfter(message) == message.after
extractHttpStatus(message) == message.status

createPriceError(message) ==
    LET httpStatus == extractHttpStatus(message) IN
    IF includes(message, "timeout") \/ includes(message, "ETIMEDOUT")
      THEN PriceNetworkError(Message("Network timeout for <exchangeName>", {}),
                             "PRICE_NETWORK_TIMEOUT")
    ELSE IF includes(message, "ECONNREFUSED")
              \/ (includes(message, "connection") /\ includes(message, "failed"))
      THEN PriceNetworkError(Message("Connection failed to <exchangeName>", {}),
                             "PRICE_NETWORK_CONNECTION_FAILED")
    ELSE IF includes(message, "rate limit") \/ includes(message, "429")
      THEN PriceAPIError(Message("Rate limit exceeded for <exchangeName>", {}),
                         "PRICE_API_RATE_LIMITED", 429, extractRetryAfter(message))
    ELSE IF httpStatus # Null /\ httpStatus # 0 /\ httpStatus >= 500
      THEN PriceAPIError(Message("Server error from <exchangeName>: <message>", {}),
                         "PRICE_API_SERVER_ERROR", httpStatus, Null)
    ELSE IF httpStatus # Null /\ httpStatus = 404
      THEN PriceAPIError(Message("Resource not found on <exchangeName>", {}),
                         "PRICE_API_NOT_FOUND", httpStatus, Null)
    ELSE IF httpStatus # Null /\ (httpStatus = 401 \/ httpStatus = 403)
      THEN PriceAPIError(Message("Unauthorized access to <exchangeName>", {}),
                         "PRICE_API_UNAUTHORIZED", httpStatus, Null)
    ELSE PriceAPIError(Message("Invalid response from <exchangeName>: <message>", {}),
                       "PRICE_API_INVALID_RESPONSE", Null, Null)

\* createTypedError: the message of whatever was thrown is classified anew
createTypedError(error) == createPriceError(error.message)

\* What fetch and response.json() did in one invocation of the operation:
\* a response with a status (header: the Retry-After header read with
\* parseInt, Null when absent), a 2xx response whose body is not JSON, the
\* abort at requestTimeout, or a network failure.
HttpStatuses == {500, 503, 404, 400, 401}
RetryAfterHeaders == {Null, 0, 2}
Responses ==
    [kind : {"json", "badjson"}, status : {200}, header : {Null}]
      \cup [kind : {"status"}, status : {429}, header : RetryAfterHeaders]
      \cup [kind : {"status"}, status : HttpStatuses, header : {Null}]
      \cup [kind : {"abort", "netfail"}, status : {0}, header : {Null}]

\* the error the operation of makeRequest throws for a response
ThrownBy(resp) ==
    IF resp.kind = "abort"
      THEN PriceNetworkError(MsgTimeout, "PRICE_NETWORK_TIMEOUT")
    ELSE IF resp.kind = "netfail" THEN RawError(MsgFetchFailed)
    ELSE IF resp.kind = "badjson"
      THEN PriceAPIError(MsgInvalidJson, "PRICE_API_INVALID_RESPONSE", Null, Null)
    ELSE IF resp.status = 429
      THEN PriceAPIError(MsgRateLimit, "PRICE_API_RATE_LIMITED", 429, resp.header)
    ELSE IF resp.status >= 500
      THEN PriceAPIError(MsgServerError, "PRICE_API_SERVER_ERROR", resp.status, Null)
    ELSE IF resp.status = 404
      THEN PriceAPIError(MsgNotFound, "PRICE_API_NOT_FOUND", resp.status, Null)
    ELSE PriceAPIError(MsgHttpError, "PRICE_API_INVALID_RESPONSE", resp.status, Null)

NoReqResult == [kind |-> "none", err |-> NoPriceError]

\* const maxRetries = context.maxRetries || 3
EffectiveMaxRetries == IF pMaxRetries = 0 THEN DefaultReqRetries ELSE pMaxRetries

ReqInit ==
    /\ pMaxRetries \in 0..MaxReqRetries
    /\ qpc = "idle"
    /\ qAttempt = 0
    /\ qLastError = NoPriceError
    /\ qResponses = <<>>
    /\ qThrown = <<>>
    /\ qSleeps = <<>>
    /\ qRes = NoReqResult

\* makeRequest(url) called: executeWithRetry starts the first operation
ReqCall ==
    /\ qpc = "idle"
    /\ qAttempt' = 1
    /\ qpc' = "op"
    /\ UNCHANGED <<pMaxRetries, qLastError, qResponses, qThrown, qSleeps, qRes>>

\* the response is 2xx with a JSON body: return await operation()
ReqOpSucceeds ==
    /\ qpc = "op"
    /\ \E resp \in Responses :
          /\ resp.kind = "json"
          /\ qResponses' = Append(qResponses, resp)
    /\ qRes' = [kind |-> "ok", err |-> NoPriceError]
    /\ qpc' = "done"
    /\ UNCHANGED <<pMaxRetries, qAttempt, qLastError, qThrown, qSleeps>>

ReqOpFails_retriesAll ==
    /\ qpc = "op"
    /\ \E resp \in Responses :
          /\ resp.kind # "json"
          /\ LET typedError == createTypedError(ThrownBy(resp)) IN
             /\ qResponses' = Append(qResponses, resp)
             /\ qThrown' = Append(qThrown, ThrownBy(resp))
             /\ qLastError' = typedError
             /\ IF qAttempt = EffectiveMaxRetries
                  THEN /\ qpc' = "done"
                       /\ qRes' = [kind |-> "err", err |-> typedError]
                       /\ UNCHANGED <<qAttempt, qSleeps>>
                  ELSE IF getRetryDelay(typedError) > 0
                    THEN /\ qSleeps' = Append(qSleeps, getRetryDelay(typedError))
                         /\ qpc' = "sleep"
                         /\ UNCHANGED <<qAttempt, qRes>>
                    ELSE /\ qAttempt' = qAttempt + 1
                         /\ UNCHANGED <<qpc, qSleeps, qRes>>
    /\ UNCHANGED pMaxRetries

\* the operation throws: the catch block of executeWithRetry, and the throw
\* after the loop when it breaks
ReqOpFails ==
    /\ qpc = "op"
    /\ \E resp \in Responses :
          /\ resp.kind # "json"
          /\ LET typedError == createTypedError(ThrownBy(resp)) IN
             /\ qResponses' = Append(qResponses, resp)
             /\ qThrown' = Append(qThrown, ThrownBy(resp))
             /\ qLastError' = typedError
             /\ IF ~isRetryable(typedError) \/ qAttempt = EffectiveMaxRetries
                  THEN /\ qpc' = "done"
                       /\ qRes' = [kind |-> "err", err |-> typedError]
                       /\ UNCHANGED <<qAttempt, qSleeps>>
                  ELSE IF getRetryDelay(typedError) > 0
                    THEN /\ qSleeps' = Append(qSleeps, getRetryDelay(typedError))
                         /\ qpc' = "sleep"
                         /\ UNCHANGED <<qAttempt, qRes>>
                    ELSE /\ qAttempt' = qAttempt + 1
                         /\ UNCHANGED <<qpc, qSleeps, qRes>>
    /\ UNCHANGED pMaxRetries

\* the sleep is over: attempt++, the loop test (true), operation()
ReqSleepDone ==
    /\ qpc = "sleep"
    /\ qAttempt' = qAttempt + 1
    /\ qpc' = "op"
    /\ UNCHANGED <<pMaxRetries, qLastError, qResponses, qThrown, qSleeps, qRes>>

(***************************************************************************)
(* DomainAwareErrorHandler.createPriceError applied to any raw message     *)
(***************************************************************************)
\* the substrings createPriceError looks for with String.includes
ClassifierMarks ==
    {"timeout", "ETIMEDOUT", "ECONNREFUSED", "connection", "failed",
     "rate limit", "429"}

\* what extractHttpStatus and extractRetryAfter can match in a message
MessageStatuses == {Null, 400, 401, 403, 404, 429, 500, 503}
MessageRetryAfters == {Null, 0, 2}

\* raw messages: a status of 429 is matched in a text that contains "429"
RawMessages ==
    {m \in [text : {"<raw>"}, marks : SUBSET ClassifierMarks,
            status : MessageStatuses, after : MessageRetryAfters] :
        m.status = 429 => "429" \in m.marks}

\* the context argument; exchangeName is optional
ClassifierContexts ==
    [operation : {"makeRequest"}, exchangeName : {"", "binance"}]

\* const exchangeName = context.exchangeName || "Unknown", and the
\* { operation, exchangeName } every branch passes to the error
ErrorContext(context) ==
    [operation |-> context.operation,
     exchangeName |-> IF context.exchangeName = "" THEN "Unknown"
                      ELSE context.exchangeName]

NoContext == [operation |-> "", exchangeName |-> ""]

ClassifyInit ==
    /\ kMessage \in RawMessages
    /\ kContext \in ClassifierContexts
    /\ kpc = "idle"
    /\ kError = NoPriceError
    /\ kErrContext = NoContext

\* createPriceError(message, cause, context)
ClassifyCall ==
    /\ kpc = "idle"
    /\ kError' = createPriceError(kMessage)
    /\ kErrContext' = ErrorContext(kContext)
    /\ kpc' = "done"
    /\ UNCHANGED <<kMessage, kContext>>

(***************************************************************************)
(* validatePriceData.  Numbers are in thousandths; a string is a sequence  *)
(* of characters, "I" standing for the letters of "Infinity" and "x" for   *)
(* any character that is not part of a number.                             *)
(***************************************************************************)
\* Number.POSITIVE_INFINITY and Number.NEGATIVE_INFINITY
Infinity == 2000000000
NegInfinity == 0 - 2000000000
isFinite(x) == x \notin {NaN, Infinity, NegInfinity}

\* the upper end of the valid range, 10000
MaxValidPrice == 10000 * 1000

Chars == {"0", "1", "-", "x", "I"}
Digits == {"0", "1"}
Strings == UNION {[1..n -> Chars] : n \in 0..MaxInputLen}

\* the number of digits of s from position i on
RECURSIVE DigitsFrom(_, _)
DigitsFrom(s, i) ==
    IF i <= Len(s) /\ s[i] \in Digits THEN 1 + DigitsFrom(s, i + 1) ELSE 0

\* the decimal value of the n digits of s that end before position i
RECURSIVE DigitsValue(_, _, _)
DigitsValue(s, i, n) ==
    IF n = 0 THEN 0
    ELSE 10 * DigitsValue(s, i - 1, n - 1) + (IF s[i - 1] = "1" THEN 1 ELSE 0)

\* parseFloat(s): the longest prefix that is a number, NaN when there is none
parseFloat(s) ==
    LET neg == Len(s) >= 1 /\ s[1] = "-"
        i == IF neg THEN 2 ELSE 1
        n == DigitsFrom(s, i)
    IN  IF i <= Len(s) /\ s[i] = "I"
          THEN IF neg THEN NegInfinity ELSE Infinity
        ELSE IF n = 0 THEN NaN
        ELSE (IF neg THEN 0 - 1 ELSE 1) * DigitsValue(s, i + n, n) * 1000

\* Number(data) for data that is not a string: a number is itself, true is
\* 1 and false 0, an object is NaN, an empty array is 0
ToNumber(data) ==
    CASE data.type = "number" -> data.num
      [] data.type = "boolean" -> data.num * 1000
      [] data.type = "array" -> 0
      [] OTHER -> NaN

NumberInputs ==
    {NaN, Infinity, NegInfinity, 0 - 1000, 0, 1, 250, MaxValidPrice,
     MaxValidPrice + 1}

\* the values of type unknown handed to validatePriceData
ValidateInputs ==
    [type : {"null", "undefined", "object", "array"}, num : {0}, str : {<<>>}]
      \cup [type : {"boolean"}, num : {0, 1}, str : {<<>>}]
      \cup [type : {"number"}, num : NumberInputs, str : {<<>>}]
      \cup [type : {"string"}, num : {0}, str : Strings]

Throws(code) == [kind |-> "throw", code |-> code, value |-> 0]
Returns(price) == [kind |-> "return", code |-> "none", value |-> price]

validatePriceData_noFiniteCheck(data) ==
    IF data.type = "null" \/ data.type = "undefined"
      THEN Throws("PRICE_MISSING_PRICE_FIELD")
    ELSE LET price == IF data.type = "string" THEN parseFloat(data.str)
                      ELSE ToNumber(data)
         IN  IF isNaN(price)
               THEN Throws("PRICE_INVALID_PRICE_DATA")
             ELSE IF price <= 0 \/ price > MaxValidPrice
               THEN Throws("PRICE_OUT_OF_RANGE")
             ELSE Returns(price)

validatePriceData(data) ==
    IF data.type = "null" \/ data.type = "undefined"
      THEN Throws("PRICE_MISSING_PRICE_FIELD")
    ELSE LET price == IF data.type = "string" THEN parseFloat(data.str)
                      ELSE ToNumber(data)
         IN  IF isNaN(price) \/ ~isFinite(price)
               THEN Throws("PRICE_INVALID_PRICE_DATA")
             ELSE IF price <= 0 \/ price > MaxValidPrice
               THEN Throws("PRICE_OUT_OF_RANGE")
             ELSE Returns(price)

ValidateInit ==
    /\ vData \in ValidateInputs
    /\ vOuts = <<>>

\* validatePriceData(data, symbol, exchangeName) called
ValidateCall ==
    /\ Len(vOuts) < MaxValidateCalls
    /\ vOuts' = Append(vOuts, validatePriceData(vData))
    /\ UNCHANGED vData

(***************************************************************************)
(* getHivePrice of the five provider classes.  What the exchange answers   *)
(* for a pair is a failed request, a body without the price field, a       *)
(* price given as text or a price given as a JSON number.                  *)
(***************************************************************************)
ProviderClasses == {"Binance", "MEXC", "Bitget", "Huobi", "Probit"}

\* the pairs a provider asks for
PairsOf(cls) == IF cls = "Binance" THEN 2 ELSE 1

RawTexts ==
    {<<"1">>, <<"x">>, <<"-", "1">>, <<"0">>, <<"1", "1", "0", "0", "0">>,
     <<"I">>}
RawNumbers == {250, 0, 0 - 1000, MaxValidPrice + 1000}
RawAnswers ==
    [kind : {"fail", "missing"}, num : {0}, str : {<<>>}]
      \cup [kind : {"text"}, num : {0}, str : RawTexts]
      \cup [kind : {"number"}, num : RawNumbers, str : {<<>>}]

\* the value of type unknown that the price field of an answer holds
FieldOf(raw) ==
    CASE raw.kind = "text" -> [type |-> "string", num |-> 0, str |-> raw.str]
      [] raw.kind = "number" -> [type |-> "number", num |-> raw.num, str |-> <<>>]
      [] OTHER -> [type |-> "undefined", num |-> 0, str |-> <<>>]

\* parseFloat(field): a number is converted to text and parsed back
parseFloatOf(raw) ==
    CASE raw.kind = "text" -> parseFloat(raw.str)
      [] raw.kind = "number" -> raw.num
      [] OTHER -> NaN

\* a + b of two numbers
JsAdd(a, b) ==
    IF a = NaN \/ b = NaN THEN NaN
    ELSE IF {a, b} = {Infinity, NegInfinity} THEN NaN
    ELSE IF Infinity \in {a, b} THEN Infinity
    ELSE IF NegInfinity \in {a, b} THEN NegInfinity
    ELSE a + b

\* roundToThreeDecimals(sum / n)
RoundedQuotient(sum, n) ==
    IF sum \in {NaN, Infinity, NegInfinity} THEN sum ELSE RoundDiv(sum, n)

RECURSIVE JsSum(_)
JsSum(values) ==
    IF values = <<>> THEN 0 ELSE JsAdd(Head(values), JsSum(Tail(values)))

\* one price is returned rounded, several are averaged and rounded
Combined(values) == RoundedQuotient(JsSum(values), Len(values))

\* the values of the pairs whose fetchWithRetry(fetchPrice) fulfilled, for a
\* provider that returns parseFloat(data.price)
RECURSIVE Fulfilled_parseFloat(_)
Fulfilled_parseFloat(raws) ==
    IF raws = <<>> THEN <<>>
    ELSE IF Head(raws).kind = "fail" THEN Fulfilled_parseFloat(Tail(raws))
    ELSE <<parseFloatOf(Head(raws))>> \o Fulfilled_parseFloat(Tail(raws))

BinanceGetHivePrice(raws) ==
    LET successfulPrices == Fulfilled_parseFloat(raws) IN
    IF successfulPrices = <<>> THEN Throws("Error")
    ELSE Returns(Combined(successfulPrices))

MEXCGetHivePrice(raws) ==
    IF raws[1].kind = "fail" THEN Throws("Error")
    ELSE Returns(RoundedQuotient(parseFloatOf(raws[1]), 1))

\* parseFloat(ticker.lastPr || ticker.close), isNaN(price) || price <= 0
BitgetGetHivePrice(raws) ==
    LET price == parseFloatOf(raws[1]) IN
    IF raws[1].kind = "fail" \/ isNaN(price)
         \/ (price # Infinity /\ price <= 0)
      THEN Throws("Error")
    ELSE Returns(RoundedQuotient(price, 1))

\* extractLatestTradePrice throws unless the price is a number
HuobiGetHivePrice(raws) ==
    IF raws[1].kind # "number" THEN Throws("Error")
    ELSE LET v == validatePriceData(FieldOf(raws[1])) IN
         IF v.kind = "throw" THEN v ELSE Returns(RoundedQuotient(v.value, 1))

\* the HIVE-USDT item of the ticker list; an item that fails validation is
\* skipped
ProbitGetHivePrice(raws) ==
    LET v == validatePriceData(FieldOf(raws[1])) IN
    IF raws[1].kind = "fail" \/ v.kind = "throw" THEN Throws("Error")
    ELSE Returns(RoundedQuotient(v.value, 1))

getHivePrice(cls, raws) ==
    CASE cls = "Binance" -> BinanceGetHivePrice(raws)
      [] cls = "MEXC" -> MEXCGetHivePrice(raws)
      [] cls = "Bitget" -> BitgetGetHivePrice(raws)
      [] cls = "Huobi" -> HuobiGetHivePrice(raws)
      [] cls = "Probit" -> ProbitGetHivePrice(raws)

NoProviderOut == [kind |-> "none", code |-> "none", value |-> 0]

ProviderInit ==
    /\ gProvider \in ProviderClasses
    /\ gRaw \in [1..PairsOf(gProvider) -> RawAnswers]
    /\ gpc = "idle"
    /\ gOut = NoProviderOut

\* getHivePrice() called, and settled
ProviderCall ==
    /\ gpc = "idle"
    /\ gOut' = getHivePrice(gProvider, gRaw)
    /\ gpc' = "done"
    /\ UNCHANGED <<gProvider, gRaw>>

(***************************************************************************)
(* The provider registry: descriptors from STATIC_PROVIDERS, from          *)
(* registerDescriptor and from HIVE_PRICE_PROVIDER_MODULES, getProvider,   *)
(* getAvailableProviders and loadProvidersFromEnv.  A name is an integer   *)
(* as above (k, or 0 - k when spelled with capitals); NoName is a name     *)
(* that is undefined.  A module is a number that tells where the           *)
(* descriptor comes from.  A Map is the sequence of its <<key, value>>     *)
(* entries in insertion order.                                             *)
(***************************************************************************)
NoName == 0
StaticModule == 10
CustomModule == 20
EnvModule == 30

\* names 1 and 2 are in STATIC_PROVIDERS, name 3 is not
RegistryNames == {1, 0 - 1, 3}

Descriptor(name, module, enabled) ==
    [name |-> name, module |-> module, enabled |-> enabled]
NoDescriptor == Descriptor(NoName, 0, FALSE)

\* STATIC_PROVIDERS as edited by a developer: the names are fixed, enabled
\* may be set to false
StaticLists ==
    {<<Descriptor(1, StaticModule, e), Descriptor(2, StaticModule, TRUE)>> :
        e \in BOOLEAN}

\* the entries of a JSON list in HIVE_PRICE_PROVIDER_MODULES: an object with
\* a name (enabled: 1 true, 0 false, Null absent), an object without a name,
\* or null
EnvItems ==
    {[kind |-> "named", name |-> 0 - 1, enabled |-> 0],
     [kind |-> "named", name |-> 1, enabled |-> Null],
     [kind |-> "named", name |-> 3, enabled |-> 1],
     [kind |-> "noname", name |-> NoName, enabled |-> Null],
     [kind |-> "null", name |-> NoName, enabled |-> Null]}

\* the values of the variable: unset, text that does not start with "[", text
\* that starts with "[" and is not JSON, or a JSON list
EnvValues ==
    [kind : {"unset", "text", "badjson"}, items : {<<>>}]
      \cup [kind : {"list"},
            items : UNION {[1..n -> EnvItems] : n \in 0..MaxEnvItems}]

\* toKey(name): name.toLowerCase()
toKey(name) == toLowerCase(name)

MapHas(map, key) == \E i \in 1..Len(map) : map[i][1] = key
MapGet(map, key) == map[CHOOSE i \in 1..Len(map) : map[i][1] = key][2]
MapKeys(map) == [i \in 1..Len(map) |-> map[i][1]]

\* Map.prototype.set: the entry of an existing key is replaced in place
MapSet(map, key, value) ==
    IF MapHas(map, key)
      THEN [i \in 1..Len(map) |-> IF map[i][1] = key THEN <<key, value>> ELSE map[i]]
    ELSE Append(map, <<key, value>>)

\* parseModulesJson on a list without null entries
parseModulesJson(items) ==
    [i \in 1..Len(items) |->
        Descriptor(items[i].name, EnvModule, items[i].enabled # 0)]

\* loadDescriptorOverridesFromEnv: item.name of a null entry throws inside
\* the try
loadDescriptorOverridesFromEnv(env) ==
    IF env.kind # "list" THEN <<>>
    ELSE IF \E i \in 1..Len(env.items) : env.items[i].kind = "null" THEN <<>>
    ELSE parseModulesJson(env.items)

\* for (const d of ds) map.set(toKey(d.name), d), ds without undefined names
RECURSIVE SetAll(_, _)
SetAll(map, ds) ==
    IF ds = <<>> THEN map
    ELSE SetAll(MapSet(map, toKey(Head(ds).name), Head(ds)), Tail(ds))

Values(map) == [i \in 1..Len(map) |-> map[i][2]]

\* toKey(d.name) throws a TypeError for a descriptor without a name
Unnamed(ds) == \E i \in 1..Len(ds) : ds[i].name = NoName

\* getAllDescriptors: static, then custom, then environment
getAllDescriptors_envFirst(static, custom, env) ==
    LET overrides == loadDescriptorOverridesFromEnv(env) IN
    IF Unnamed(overrides) THEN [kind |-> "crash", map |-> <<>>]
    ELSE [kind |-> "ok",
          map |-> SetAll(SetAll(SetAll(<<>>, overrides), static), Values(custom))]

getAllDescriptors(static, custom, env) ==
    LET overrides == loadDescriptorOverridesFromEnv(env) IN
    IF Unnamed(overrides) THEN [kind |-> "crash", map |-> <<>>]
    ELSE [kind |-> "ok",
          map |-> SetAll(SetAll(SetAll(<<>>, static), Values(custom)), overrides)]

\* ProviderRegistry.getProvider(name): a LazyModuleProvider of the resolved
\* descriptor, else the product of a registered factory, else null
getProvider(static, custom, factories, env, name) ==
    LET all == getAllDescriptors(static, custom, env) IN
    IF all.kind = "crash" THEN [kind |-> "crash", desc |-> NoDescriptor]
    ELSE IF MapHas(all.map, toKey(name))
      THEN [kind |-> "lazy", desc |-> MapGet(all.map, toKey(name))]
    ELSE IF \E i \in 1..Len(factories) : factories[i] = toKey(name)
      THEN [kind |-> "factory", desc |-> NoDescriptor]
    ELSE [kind |-> "null", desc |-> NoDescriptor]

\* computeActiveConfig with a STATIC_PROVIDERS that is not empty
RECURSIVE computeActiveConfig(_)
computeActiveConfig(static) ==
    IF static = <<>> THEN <<>>
    ELSE (IF Head(static).enabled THEN <<Head(static)>> ELSE <<>>)
           \o computeActiveConfig(Tail(static))

\* the loop of createProvidersFromConfig over the rest of the config, with
\* the keys seen and the providers pushed so far
RECURSIVE CreateLoop(_, _, _, _, _, _, _)
CreateLoop(config, seen, providers, static, custom, factories, env) ==
    IF config = <<>>
      THEN IF providers = <<>> THEN [kind |-> "throw", providers |-> <<>>]
           ELSE [kind |-> "ok", providers |-> providers]
    ELSE LET cfg == Head(config)
             key == toKey(cfg.name)
             provider == getProvider(static, custom, factories, env, cfg.name)
         IN  IF ~cfg.enabled \/ key \in seen
               THEN CreateLoop(Tail(config), seen, providers, static, custom,
                               factories, env)
             ELSE IF provider.kind = "crash"
               THEN [kind |-> "crash", providers |-> <<>>]
             ELSE IF provider.kind = "null"
               THEN CreateLoop(Tail(config), seen \cup {key}, providers, static,
                               custom, factories, env)
             ELSE CreateLoop(Tail(config), seen \cup {key},
                             Append(providers, provider), static, custom,
                             factories, env)

createProvidersFromConfig(static, custom, factories, env) ==
    CreateLoop(computeActiveConfig(static), {}, <<>>, static, custom,
               factories, env)

\* the descriptors loadProvidersFromEnv registers before registerDescriptor
\* throws for one without a name
RECURSIVE NamedPrefix(_)
NamedPrefix(ds) ==
    IF ds = <<>> \/ Head(ds).name = NoName THEN <<>>
    ELSE <<Head(ds)>> \o NamedPrefix(Tail(ds))

\* a call of the registry and its result
Called(op, name, kind, desc, keys, providers) ==
    [op |-> op, name |-> name, kind |-> kind, desc |-> desc, keys |-> keys,
     providers |-> providers]
NoCall == Called("none", NoName, "none", NoDescriptor, <<>>, <<>>)

\* the descriptors given to registerDescriptor
RegisteredDescriptors ==
    {Descriptor(1, CustomModule, TRUE), Descriptor(0 - 1, CustomModule, FALSE),
     Descriptor(3, CustomModule, TRUE)}

RegistryInit ==
    /\ rStatic \in StaticLists
    /\ rEnv \in EnvValues
    /\ rCustom = <<>>
    /\ rFactories = <<>>
    /\ rRegs = 0
    /\ rLast = NoCall

\* ProviderRegistry.registerDescriptor(descriptor)
RegisterDescriptor ==
    /\ rRegs < MaxRegistrations
    /\ \E descriptor \in RegisteredDescriptors :
          rCustom' = MapSet(rCustom, toKey(descriptor.name), descriptor)
    /\ rRegs' = rRegs + 1
    /\ UNCHANGED <<rStatic, rEnv, rFactories, rLast>>

\* ProviderRegistry.registerProvider(name, factory)
RegisterProvider ==
    /\ rRegs < MaxRegistrations
    /\ \E name \in RegistryNames :
          rFactories' = MapKeys(MapSet([i \in 1..Len(rFactories) |->
                                          <<rFactories[i], 0>>], toKey(name), 0))
    /\ rRegs' = rRegs + 1
    /\ UNCHANGED <<rStatic, rEnv, rCustom, rLast>>

\* ProviderRegistry.getProvider(name)
GetProvider ==
    /\ \E name \in RegistryNames \cup {2} :
          LET got == getProvider(rStatic, rCustom, rFactories, rEnv, name) IN
          rLast' = Called("getProvider", name, got.kind, got.desc, <<>>, <<>>)
    /\ UNCHANGED <<rStatic, rEnv, rCustom, rFactories, rRegs>>

\* ProviderRegistry.getAvailableProviders()
GetAvailableProviders ==
    /\ LET all == getAllDescriptors(rStatic, rCustom, rEnv) IN
       rLast' = Called("getAvailableProviders", NoName, all.kind, NoDescriptor,
                       IF all.kind = "crash" THEN <<>>
                       ELSE MapKeys(all.map) \o rFactories, <<>>)
    /\ UNCHANGED <<rStatic, rEnv, rCustom, rFactories, rRegs>>

\* loadProvidersFromEnv(): the descriptors of the environment are
\* registered, then createProvidersFromConfig()
LoadProvidersFromEnv ==
    /\ LET overrides == loadDescriptorOverridesFromEnv(rEnv)
           custom == SetAll(rCustom, NamedPrefix(overrides))
           built == IF Unnamed(overrides)
                      THEN [kind |-> "crash", providers |-> <<>>]
                    ELSE createProvidersFromConfig(rStatic, custom, rFactories,
                                                   rEnv)
       IN  /\ rCustom' = custom
           /\ rLast' = Called("loadProvidersFromEnv", NoName, built.kind,
                              NoDescriptor, <<>>, built.providers)
    /\ UNCHANGED <<rStatic, rEnv, rFactories, rRegs>>

(***************************************************************************)
(* LazyModuleProvider: ensureReal and getHivePrice.  A call is suspended   *)
(* at await import(...) and at await provider.getHivePrice(); other calls  *)
(* run in between.                                                         *)
(***************************************************************************)
LazyCalls == 1..MaxLazyCalls

LazyInit ==
    /\ lExport \in BOOLEAN
    /\ realProvider = 0
    /\ lConstructed = 0
    /\ lPc = [c \in LazyCalls |-> "idle"]
    /\ lUses = [c \in LazyCalls |-> 0]

\* getHivePrice() called: ensureReal returns this.realProvider when it is
\* set, else it awaits import(this.descriptor.module)
LazyGetHivePrice ==
    /\ \E c \in LazyCalls :
          /\ lPc[c] = "idle"
          /\ IF realProvider # 0
               THEN /\ lUses' = [lUses EXCEPT ![c] = realProvider]
                    /\ lPc' = [lPc EXCEPT ![c] = "price"]
               ELSE /\ lPc' = [lPc EXCEPT ![c] = "import"]
                    /\ UNCHANGED lUses
    /\ UNCHANGED <<lExport, realProvider, lConstructed>>

\* the import resolved: new Ctor(), instance.configure(...),
\* this.realProvider = instance, then provider.getHivePrice()
LazyImported ==
    /\ lExport
    /\ \E c \in LazyCalls :
          /\ lPc[c] = "import"
          /\ lConstructed' = lConstructed + 1
          /\ realProvider' = lConstructed'
          /\ lUses' = [lUses EXCEPT ![c] = lConstructed']
          /\ lPc' = [lPc EXCEPT ![c] = "price"]
    /\ UNCHANGED lExport

\* the import rejected, or the export is not a function: ensureReal throws
LazyImportFails ==
    /\ \E c \in LazyCalls :
          /\ lPc[c] = "import"
          /\ lPc' = [lPc EXCEPT ![c] = "failed"]
    /\ UNCHANGED <<lExport, realProvider, lConstructed, lUses>>

\* provider.getHivePrice() settled
LazyPriceSettles ==
    /\ \E c \in LazyCalls :
          /\ lPc[c] = "price"
          /\ lPc' = [lPc EXCEPT ![c] = "done"]
    /\ UNCHANGED <<lExport, realProvider, lConstructed, lUses>>

(***************************************************************************)
(* PriceAggregator: the constructor, addProvider, the array that           *)
(* getProviders() hands out, and getAggregatedHivePrice as far as the      *)
(* number of providers matters: a round invokes every provider and either  *)
(* yields a combined price or not.                                         *)
(***************************************************************************)
CtorInit ==
    /\ xArg = Null
    /\ xProviders = 0
    /\ xpc = "none"
    /\ xAtCall = 0
    /\ xAttempt = 0
    /\ xRounds = 0
    /\ xInvoked = 0
    /\ xSleeps = 0
    /\ xRes = "none"

\* new PriceAggregator(providers) with an array of n providers
ConstructWith ==
    /\ xpc = "none"
    /\ \E n \in 0..NumProviders :
          /\ xArg' = n
          /\ IF n = 0
               THEN xpc' = "ctorThrew" /\ UNCHANGED xProviders
               ELSE xpc' = "idle" /\ xProviders' = n
    /\ UNCHANGED <<xAtCall, xAttempt, xRounds, xInvoked, xSleeps, xRes>>

\* new PriceAggregator(): loadProvidersFromEnv() returns at least one
\* provider or throws
ConstructDefault ==
    /\ xpc = "none"
    /\ xArg' = Null
    /\ \/ \E n \in 1..NumProviders : xpc' = "idle" /\ xProviders' = n
       \/ xpc' = "ctorThrew" /\ UNCHANGED xProviders
    /\ UNCHANGED <<xAtCall, xAttempt, xRounds, xInvoked, xSleeps, xRes>>

\* addProvider(provider), between calls
AddProvider ==
    /\ xpc \in {"idle", "done"}
    /\ xProviders < NumProviders
    /\ xProviders' = xProviders + 1
    /\ UNCHANGED <<xArg, xpc, xAtCall, xAttempt, xRounds, xInvoked, xSleeps,
                   xRes>>

\* the host removes an element from the array it passed to the constructor
\* or got from getProviders(): this.providers is that array; between calls
HostRemovesProvider ==
    /\ xpc \in {"idle", "done"}
    /\ xProviders > 0
    /\ xProviders' = xProviders - 1
    /\ UNCHANGED <<xArg, xpc, xAtCall, xAttempt, xRounds, xInvoked, xSleeps,
                   xRes>>

\* fetchPricesWithTimeout(): every provider of the list is invoked
XStartRound(r) ==
    /\ xpc' = "round"
    /\ xAttempt' = r
    /\ xRounds' = xRounds + 1
    /\ xInvoked' = xInvoked + xProviders

GetAggregatedHivePrice_noGuard ==
    /\ xpc = "idle"
    /\ xAtCall' = xProviders
    /\ XStartRound(1)
    /\ UNCHANGED <<xSleeps, xRes>>
    /\ UNCHANGED <<xArg, xProviders>>

\* getAggregatedHivePrice() called
GetAggregatedHivePrice ==
    /\ xpc = "idle"
    /\ xAtCall' = xProviders
    /\ IF xProviders = 0
         THEN /\ xRes' = "No price providers configured"
              /\ xpc' = "done"
              /\ UNCHANGED <<xAttempt, xRounds, xInvoked, xSleeps>>
         ELSE /\ XStartRound(1)
              /\ UNCHANGED <<xSleeps, xRes>>
    /\ UNCHANGED <<xArg, xProviders>>

\* the round gave at least one successful price and calculateFinalPrice
\* returned
XRoundSucceeds ==
    /\ xpc = "round"
    /\ xProviders > 0
    /\ xRes' = "price"
    /\ xpc' = "done"
    /\ UNCHANGED <<xArg, xProviders, xAtCall, xAttempt, xRounds, xInvoked,
                   xSleeps>>

\* the round gave no successful price, timed out, or calculateFinalPrice
\* threw
XRoundFails ==
    /\ xpc = "round"
    /\ IF xAttempt < AggMaxRetries
         THEN /\ xSleeps' = xSleeps + 1
              /\ xpc' = "sleep"
              /\ UNCHANGED xRes
         ELSE /\ xRes' = "Failed to obtain HIVE price"
              /\ xpc' = "done"
              /\ UNCHANGED xSleeps
    /\ UNCHANGED <<xArg, xProviders, xAtCall, xAttempt, xRounds, xInvoked>>

\* the sleep between rounds is over
XSleepDone ==
    /\ xpc = "sleep"
    /\ XStartRound(xAttempt + 1)
    /\ UNCHANGED <<xArg, xProviders, xAtCall, xSleeps, xRes>>

(***************************************************************************)
(* HiveFeedPriceBot: start(), the interval timer, stop(), and the          *)
(* publishFeed calls in flight.  Every publishFeed call goes through the   *)
(* publisher's one HiveChainWithFailover (nodes, maxRetries, chain,        *)
(* currentNodeIndex); each call has its own attempt.  Time is not          *)
(* modelled: the timer may fire whenever it is armed.                      *)
(***************************************************************************)
Pubs == 1..MaxPublishes

\* the variables of the single caller of the failover wrapper, unused here
callerLocals == <<initPc, initUrl, fpc, attempt, lastError, fres, gres, i0,
                  invocations, recovFailures, sleeps, delay, opNode>>

FreePub == [s \in Pubs |-> "free"]

BotInit ==
    /\ nodes \in 1..MaxNodes
    /\ maxRetries = DefaultMaxRetries(nodes)
    /\ chain = Null
    /\ currentNodeIndex = 0
    /\ initPc = "none" /\ initUrl = 0 /\ fpc = "idle" /\ attempt = 0
    /\ lastError = NoError
    /\ fres = [kind |-> "none", val |-> 0, err |-> NoError]
    /\ gres = "none" /\ i0 = 0 /\ invocations = 0 /\ recovFailures = 0
    /\ sleeps = 0 /\ delay = 0 /\ opNode = 0
    /\ isRunning = FALSE
    /\ isShuttingDown = FALSE
    /\ intervalId = FALSE
    /\ startPc = "idle"
    /\ firstPub = 0
    /\ pubPc = FreePub
    /\ pubAttempt = [s \in Pubs |-> 0]
    /\ pubOpNode = [s \in Pubs |-> 0]

\* publishFeed() called in slot s while not shutting down: publishFeedPrice
\* awaits priceAggregator.getAggregatedHivePrice()
BeginPublish(s) ==
    /\ pubPc[s] = "free"
    /\ pubPc' = [pubPc EXCEPT ![s] = "agg"]
    /\ pubAttempt' = [pubAttempt EXCEPT ![s] = 0]

\* start() called while not running: await this.publisher.initialize().  The
\* host calls start() once, before any stop().
BotStart ==
    /\ startPc = "idle"
    /\ ~isRunning
    /\ ~isShuttingDown
    /\ startPc' = "init"
    /\ UNCHANGED <<isRunning, isShuttingDown, intervalId, firstPub, pubPc,
                   pubAttempt, pubOpNode>>
    /\ UNCHANGED <<nodes, maxRetries, chain, currentNodeIndex>>

\* publisher.initialize() resolved with a new wrapper on endpoint 0; start()
\* goes on to await this.publishFeed()
BotInitialized ==
    /\ startPc = "init"
    /\ currentNodeIndex' = 0
    /\ chain' = 0
    /\ IF isShuttingDown
         THEN /\ firstPub' = 0
              /\ UNCHANGED <<pubPc, pubAttempt>>
         ELSE \E s \in Pubs : BeginPublish(s) /\ firstPub' = s
    /\ startPc' = "publish"
    /\ UNCHANGED <<isRunning, isShuttingDown, intervalId, pubOpNode>>
    /\ UNCHANGED <<nodes, maxRetries>>

\* publisher.initialize() rejected: start() rethrows
BotInitFails ==
    /\ startPc = "init"
    /\ startPc' = "failed"
    /\ UNCHANGED <<isRunning, isShuttingDown, intervalId, firstPub, pubPc,
                   pubAttempt, pubOpNode>>
    /\ UNCHANGED <<nodes, maxRetries, chain, currentNodeIndex>>

\* the first publishFeed resolved: setInterval(...), isRunning = true
BotStarted ==
    /\ startPc = "publish"
    /\ IF firstPub = 0 THEN TRUE ELSE pubPc[firstPub] = "free"
    /\ intervalId' = TRUE
    /\ isRunning' = TRUE
    /\ startPc' = "idle"
    /\ firstPub' = 0
    /\ UNCHANGED <<isShuttingDown, pubPc, pubAttempt, pubOpNode>>
    /\ UNCHANGED <<nodes, maxRetries, chain, currentNodeIndex>>

\* the interval timer fires: the callback calls publishFeed() unless the bot
\* is shutting down; it does not look at publishFeed calls still in flight
TimerFires ==
    /\ intervalId
    /\ ~isShuttingDown
    /\ \E s \in Pubs : BeginPublish(s)
    /\ UNCHANGED <<isRunning, isShuttingDown, intervalId, startPc, firstPub,
                   pubOpNode>>
    /\ UNCHANGED <<nodes, maxRetries, chain, currentNodeIndex>>

\* stop() while running
BotStop ==
    /\ isRunning
    /\ isShuttingDown' = TRUE
    /\ intervalId' = FALSE
    /\ isRunning' = FALSE
    /\ UNCHANGED <<startPc, firstPub, pubPc, pubAttempt, pubOpNode>>
    /\ UNCHANGED <<nodes, maxRetries, chain, currentNodeIndex>>

\* getAggregatedHivePrice rejected, or returned a price that validatePrice
\* rejects: publishFeedPrice throws and publishFeed logs it
PubNoPrice ==
    /\ \E s \in Pubs :
          /\ pubPc[s] = "agg"
          /\ pubPc' = [pubPc EXCEPT ![s] = "free"]
    /\ UNCHANGED <<isRunning, isShuttingDown, intervalId, startPc, firstPub,
                   pubAttempt, pubOpNode>>
    /\ UNCHANGED <<nodes, maxRetries, chain, currentNodeIndex>>

\* getAggregatedHivePrice returned a valid price: broadcastFeedPublish calls
\* executeWithFailover, which invokes the operation on this.chain
PubExecStart ==
    /\ \E s \in Pubs :
          /\ pubPc[s] = "agg"
          /\ chain # Null
          /\ 0 < maxRetries
          /\ pubPc' = [pubPc EXCEPT ![s] = "op"]
          /\ pubAttempt' = [pubAttempt EXCEPT ![s] = 0]
          /\ pubOpNode' = [pubOpNode EXCEPT ![s] = chain]
    /\ UNCHANGED <<isRunning, isShuttingDown, intervalId, startPc, firstPub>>
    /\ UNCHANGED <<nodes, maxRetries, chain, currentNodeIndex>>

\* the operation resolved (the feed is published) or rejected with an error
\* that is not recoverable: executeWithFailover ends
PubOpEnds ==
    /\ \E s \in Pubs :
          /\ pubPc[s] = "op"
          /\ pubPc' = [pubPc EXCEPT ![s] = "free"]
    /\ UNCHANGED <<isRunning, isShuttingDown, intervalId, startPc, firstPub,
                   pubAttempt, pubOpNode>>
    /\ UNCHANGED <<nodes, maxRetries, chain, currentNodeIndex>>

\* the operation rejected with a recoverable error: attempt++, and with
\* attempts left switchToNextNode and the backoff sleep, else the throw
PubOpFailsRecoverable ==
    /\ \E s \in Pubs :
          /\ pubPc[s] = "op"
          /\ \E cls \in ErrorClasses :
                isRecoverableChainError([cls |-> cls, id |-> 0])
          /\ pubAttempt' = [pubAttempt EXCEPT ![s] = pubAttempt[s] + 1]
          /\ IF pubAttempt'[s] < maxRetries
               THEN /\ switchToNextNode
                    /\ pubPc' = [pubPc EXCEPT ![s] = "sleep"]
               ELSE /\ pubPc' = [pubPc EXCEPT ![s] = "free"]
                    /\ UNCHANGED <<chain, currentNodeIndex>>
    /\ UNCHANGED <<isRunning, isShuttingDown, intervalId, startPc, firstPub,
                   pubOpNode>>
    /\ UNCHANGED <<nodes, maxRetries>>

\* the backoff sleep of a call is over: the next invocation of the operation
PubSleepDone ==
    /\ \E s \in Pubs :
          /\ pubPc[s] = "sleep"
          /\ pubPc' = [pubPc EXCEPT ![s] = "op"]
          /\ pubOpNode' = [pubOpNode EXCEPT ![s] = chain]
    /\ UNCHANGED <<isRunning, isShuttingDown, intervalId, startPc, firstPub,
                   pubAttempt>>
    /\ UNCHANGED <<nodes, maxRetries, chain, currentNodeIndex>>

(***************************************************************************)
(* Specifications                                                          *)
(***************************************************************************)
ClassifyIdle ==
    /\ kMessage = Message("", {})
    /\ kContext = NoContext
    /\ kpc = "idle"
    /\ kError = NoPriceError
    /\ kErrContext = NoContext

ValidateIdle ==
    /\ vData = [type |-> "null", num |-> 0, str |-> <<>>]
    /\ vOuts = <<>>

ProviderIdle ==
    /\ gProvider = "none"
    /\ gRaw = <<>>
    /\ gpc = "idle"
    /\ gOut = [kind |-> "none", code |-> "none", value |-> 0]

RegistryIdle ==
    /\ rStatic = <<>>
    /\ rEnv = [kind |-> "unset", items |-> <<>>]
    /\ rCustom = <<>>
    /\ rFactories = <<>>
    /\ rRegs = 0
    /\ rLast = NoCall

LazyIdle ==
    /\ lExport = FALSE
    /\ realProvider = 0
    /\ lConstructed = 0
    /\ lPc = [c \in LazyCalls |-> "idle"]
    /\ lUses = [c \in LazyCalls |-> 0]

CtorIdle ==
    /\ xArg = Null
    /\ xProviders = 0
    /\ xpc = "none"
    /\ xAtCall = 0
    /\ xAttempt = 0
    /\ xRounds = 0
    /\ xInvoked = 0
    /\ xSleeps = 0
    /\ xRes = "none"

BotIdle ==
    /\ isRunning = FALSE
    /\ isShuttingDown = FALSE
    /\ intervalId = FALSE
    /\ startPc = "idle"
    /\ firstPub = 0
    /\ pubPc = FreePub
    /\ pubAttempt = [s \in Pubs |-> 0]
    /\ pubOpNode = [s \in Pubs |-> 0]

ReqIdle ==
    /\ pMaxRetries = DefaultReqRetries
    /\ qpc = "idle"
    /\ qAttempt = 0
    /\ qLastError = NoPriceError
    /\ qResponses = <<>>
    /\ qThrown = <<>>
    /\ qSleeps = <<>>
    /\ qRes = NoReqResult

FetchIdle ==
    /\ retryAttempts = DefaultRetryAttempts
    /\ retryDelay = DefaultRetryDelay
    /\ wpc = "idle"
    /\ wAttempt = 0
    /\ wLastError = 0
    /\ wCalls = <<>>
    /\ wSleeps = <<>>
    /\ wRes = NoFetchResult

MapIdle ==
    /\ mProviders = [p \in Providers |-> "ok"]
    /\ mFn = "none"
    /\ mpc = "idle"
    /\ mSettled = [p \in Providers |-> StillPending]
    /\ mInvoked = [p \in Providers |-> 0]
    /\ mOutcome = [p \in Providers |-> NoOutcome]
    /\ mRes = NoMapResult

CalcIdle ==
    /\ cConfig = <<>>
    /\ cProvidersConfig = [k \in CalcKeys |-> <<>>]
    /\ cSuccessful = <<>>
    /\ cWeighted = <<>>
    /\ cOut = NoOut
    /\ cpc = "new"

AggIdle ==
    /\ weightCfg = [p \in Providers |-> <<>>]
    /\ apc = "idle"
    /\ aAttempt = 0
    /\ inflight = {}
    /\ entries = [p \in Providers |-> Pending(p)]
    /\ exchangePrices = <<>>
    /\ timedOut = {}
    /\ roundsRun = 0
    /\ aSleeps = <<>>
    /\ ares = NoResult

FailoverIdle ==
    /\ nodes = 1
    /\ maxRetries = DefaultMaxRetries(1)
    /\ chain = Null
    /\ currentNodeIndex = 0
    /\ initPc = "none"
    /\ initUrl = 0
    /\ fpc = "idle"
    /\ attempt = 0
    /\ lastError = NoError
    /\ fres = [kind |-> "none", val |-> 0, err |-> NoError]
    /\ gres = "none"
    /\ i0 = 0
    /\ invocations = 0
    /\ recovFailures = 0
    /\ sleeps = 0
    /\ delay = 0
    /\ opNode = 0

(***************************************************************************)
(* One pair fetch of a provider that wraps makeRequest in fetchWithRetry   *)
(* (Binance, MEXC, Probit): the two retry loops, one inside the other, by  *)
(* HTTP call                                                               *)
(***************************************************************************)
\* what fetch does in one HTTP call of a pair fetch: a JSON answer, the
\* abort at requestTimeout, not-found, a server error
PairResponses ==
    [kind : {"json"}, status : {200}, header : {Null}]
      \cup [kind : {"abort"}, status : {0}, header : {Null}]
      \cup [kind : {"status"}, status : {404, 500}, header : {Null}]

\* const maxRetries = context.maxRetries || 3, for this provider
PairMaxRetries == IF hMaxRetries = 0 THEN DefaultReqRetries ELSE hMaxRetries

PairInit ==
    /\ hRetryAttempts \in 0..MaxAttempts
    /\ hMaxRetries \in 0..MaxReqRetries
    /\ hpc = "idle"
    /\ hAttempt = 0
    /\ hDriverAttempt = 0
    /\ hHttp = <<>>
    /\ hOnlyNotFound = TRUE
    /\ hLastError = NoPriceError
    /\ hRes = "none"

PairIdle ==
    /\ hRetryAttempts = DefaultRetryAttempts
    /\ hMaxRetries = DefaultReqRetries
    /\ hpc = "idle"
    /\ hAttempt = 0
    /\ hDriverAttempt = 0
    /\ hHttp = <<>>
    /\ hOnlyNotFound = TRUE
    /\ hLastError = NoPriceError
    /\ hRes = "none"

\* fetchFn() of attempt a: makeRequest, executeWithRetry, operation(), fetch
PairStartAttempt(a) ==
    /\ hAttempt' = a
    /\ hDriverAttempt' = 1
    /\ hHttp' = Append(hHttp, 1)
    /\ hpc' = "http"

\* fetchWithRetry called: the loop test and the first attempt, or with
\* retryAttempts = 0 the throw after the loop
PairCall ==
    /\ hpc = "idle"
    /\ IF 1 <= hRetryAttempts
         THEN /\ PairStartAttempt(1)
              /\ UNCHANGED hRes
         ELSE /\ hpc' = "done"
              /\ hRes' = "err"
              /\ UNCHANGED <<hAttempt, hDriverAttempt, hHttp>>
    /\ UNCHANGED <<hRetryAttempts, hMaxRetries, hOnlyNotFound, hLastError>>

\* the HTTP call is answered with JSON: operation, executeWithRetry,
\* makeRequest, fetchFn and fetchWithRetry return
PairHttpSucceeds ==
    /\ hpc = "http"
    /\ hpc' = "done"
    /\ hRes' = "ok"
    /\ hOnlyNotFound' = FALSE
    /\ UNCHANGED <<hRetryAttempts, hMaxRetries, hAttempt, hDriverAttempt, hHttp,
                   hLastError>>

PairHttpFails_driverDecides ==
    /\ hpc = "http"
    /\ \E resp \in PairResponses :
         /\ resp.kind # "json"
         /\ hOnlyNotFound' = (hOnlyNotFound /\ resp.status = 404)
         /\ LET typedError == createTypedError(ThrownBy(resp)) IN
            IF ~isRetryable(typedError)
              THEN /\ hLastError' = typedError
                   /\ hpc' = "done"
                   /\ hRes' = "err"
                   /\ UNCHANGED <<hAttempt, hDriverAttempt, hHttp>>
            ELSE IF hDriverAttempt = PairMaxRetries
              THEN /\ hLastError' = typedError
                   /\ IF hAttempt < hRetryAttempts
                        THEN hpc' = "fsleep" /\ hRes' = hRes
                        ELSE hpc' = "done" /\ hRes' = "err"
                   /\ UNCHANGED <<hAttempt, hDriverAttempt, hHttp>>
            ELSE /\ hpc' = "dsleep"
                 /\ UNCHANGED <<hAttempt, hDriverAttempt, hHttp, hLastError, hRes>>
    /\ UNCHANGED <<hRetryAttempts, hMaxRetries>>

\* the HTTP call fails: the catch block of executeWithRetry and, when the
\* driver gives up, the catch block of fetchWithRetry
PairHttpFails ==
    /\ hpc = "http"
    /\ \E resp \in PairResponses :
         /\ resp.kind # "json"
         /\ hOnlyNotFound' = (hOnlyNotFound /\ resp.status = 404)
         /\ LET typedError == createTypedError(ThrownBy(resp)) IN
            IF ~isRetryable(typedError) \/ hDriverAttempt = PairMaxRetries
              THEN /\ hLastError' = typedError
                   /\ IF hAttempt < hRetryAttempts
                        THEN hpc' = "fsleep" /\ hRes' = hRes
                        ELSE hpc' = "done" /\ hRes' = "err"
                   /\ UNCHANGED <<hAttempt, hDriverAttempt, hHttp>>
            ELSE IF getRetryDelay(typedError) > 0
              THEN /\ hpc' = "dsleep"
                   /\ UNCHANGED <<hAttempt, hDriverAttempt, hHttp, hLastError, hRes>>
            ELSE /\ hDriverAttempt' = hDriverAttempt + 1
                 /\ hHttp' = [hHttp EXCEPT ![Len(hHttp)] = @ + 1]
                 /\ UNCHANGED <<hpc, hAttempt, hLastError, hRes>>
    /\ UNCHANGED <<hRetryAttempts, hMaxRetries>>

\* the driver's sleep is over: attempt++, the loop test (true), operation()
PairDriverSleepDone ==
    /\ hpc = "dsleep"
    /\ hDriverAttempt' = hDriverAttempt + 1
    /\ hHttp' = [hHttp EXCEPT ![Len(hHttp)] = @ + 1]
    /\ hpc' = "http"
    /\ UNCHANGED <<hRetryAttempts, hMaxRetries, hAttempt, hOnlyNotFound,
                   hLastError, hRes>>

\* the sleep of fetchWithRetry is over: attempt++, the loop test (true),
\* fetchFn()
PairFetchSleepDone ==
    /\ hpc = "fsleep"
    /\ PairStartAttempt(hAttempt + 1)
    /\ UNCHANGED <<hRetryAttempts, hMaxRetries, hOnlyNotFound, hLastError, hRes>>

(***************************************************************************)
(* HiveFeedPriceBot: start() and stop() called in any order and any        *)
(* overlap, by timer.  publisher.initialize() and publishFeed() are the    *)
(* two awaits of start(); stop() has none.                                 *)
(***************************************************************************)
Starts == 1..MaxStarts

LifeInit ==
    /\ sIsRunning = FALSE
    /\ sIsShuttingDown = FALSE
    /\ sIntervalId = Null
    /\ sActive = {}
    /\ sStartPc = [c \in Starts |-> "free"]
    /\ sStopReturned = FALSE
    /\ sPublishes = 0
    /\ sLatePublishes = 0

LifeIdle == LifeInit

\* publishFeed(): nothing when shutting down, else publishFeedPrice is called
LifePublishFeed ==
    IF sIsShuttingDown
      THEN UNCHANGED <<sPublishes, sLatePublishes>>
      ELSE /\ sPublishes' = sPublishes + 1
           /\ sLatePublishes' = sLatePublishes + (IF sStopReturned THEN 1 ELSE 0)

\* start() called: the isRunning guard, then await publisher.initialize()
LifeStart ==
    /\ \E c \in Starts :
          /\ sStartPc[c] = "free"
          /\ sStartPc' = [sStartPc EXCEPT ![c] =
                             IF sIsRunning THEN "returned" ELSE "init"]
    /\ UNCHANGED <<sIsRunning, sIsShuttingDown, sIntervalId, sActive,
                   sStopReturned, sPublishes, sLatePublishes>>

\* publisher.initialize() resolved: await this.publishFeed()
LifeInitialized ==
    /\ \E c \in Starts :
          /\ sStartPc[c] = "init"
          /\ sStartPc' = [sStartPc EXCEPT ![c] = "publish"]
    /\ LifePublishFeed
    /\ UNCHANGED <<sIsRunning, sIsShuttingDown, sIntervalId, sActive,
                   sStopReturned>>

\* publisher.initialize() rejected: start() rethrows
LifeInitFails ==
    /\ \E c \in Starts :
          /\ sStartPc[c] = "init"
          /\ sStartPc' = [sStartPc EXCEPT ![c] = "threw"]
    /\ UNCHANGED <<sIsRunning, sIsShuttingDown, sIntervalId, sActive,
                   sStopReturned, sPublishes, sLatePublishes>>

\* publishFeed() resolved: this.intervalId = setInterval(...), isRunning = true
LifeArmTimer ==
    /\ \E c \in Starts :
          /\ sStartPc[c] = "publish"
          /\ sActive' = sActive \cup {c}
          /\ sIntervalId' = c
          /\ sStartPc' = [sStartPc EXCEPT ![c] = "returned"]
    /\ sIsRunning' = TRUE
    /\ UNCHANGED <<sIsShuttingDown, sStopReturned, sPublishes, sLatePublishes>>

\* an armed timer fires while the bot is not shutting down: publishFeed()
LifeTimerFires ==
    /\ sActive # {}
    /\ ~sIsShuttingDown
    /\ sPublishes < MaxPublishes
    /\ LifePublishFeed
    /\ UNCHANGED <<sIsRunning, sIsShuttingDown, sIntervalId, sActive, sStartPc,
                   sStopReturned>>

\* stop(): nothing unless isRunning; else isShuttingDown = true, the timer
\* this.intervalId refers to is cleared, isRunning = false
LifeStop ==
    /\ IF ~sIsRunning
         THEN UNCHANGED <<sIsRunning, sIsShuttingDown, sIntervalId, sActive>>
         ELSE /\ sIsShuttingDown' = TRUE
              /\ sActive' = sActive \ {sIntervalId}
              /\ sIntervalId' = Null
              /\ sIsRunning' = FALSE
    /\ sStopReturned' = TRUE
    /\ UNCHANGED <<sStartPc, sPublishes, sLatePublishes>>

(***************************************************************************)
(* FeedPublisher.  initialize() builds the failover wrapper and awaits its *)
(* initialize(); publishFeedPrice asks the aggregator for a price, checks  *)
(* it, and hands the broadcast to executeWithFailover.  The aggregator is  *)
(* represented by what it returns or throws.                               *)
(***************************************************************************)
\* what the aggregator may hand back: NaN, zero, a negative and a plain price
PublishPrices == {NaN, 0 - 1000, 0, 9000}

PublisherInit ==
    /\ uHive = FALSE
    /\ uWallet = FALSE
    /\ uPc = "idle"
    /\ uPrice = Null
    /\ uCalls = 0
    /\ uRes = "none"

PublisherIdle == PublisherInit

validatePrice_acceptsZero(priceUSD) == ~(priceUSD < 0 \/ isNaN(priceUSD))

\* validatePrice returns normally: not (priceUSD <= 0 || isNaN(priceUSD)),
\* for a value of type number
validatePrice(priceUSD) == ~(priceUSD <= 0 \/ isNaN(priceUSD))

\* FeedPublisher.initialize(): new HiveChainWithFailover, await its initialize()
PublisherInitStart ==
    /\ ~uHive
    /\ chain = Null
    /\ uPc = "idle"
    /\ InitializeStart
    /\ UNCHANGED uvars

\* the wrapper connected: this.hive = getChain(); then the wallet is opened or
\* created, or that fails and initialize() throws with the wallet unset
PublisherInitConnected ==
    /\ InitializeDone
    /\ uHive' = TRUE
    /\ \E w \in BOOLEAN : uWallet' = w
    /\ UNCHANGED <<uPc, uPrice, uCalls, uRes>>

\* the wrapper's initialize() rejected: initialize() throws
PublisherInitFails ==
    /\ InitializeFail
    /\ UNCHANGED uvars

\* publishFeedPrice on a publisher without hive or wax: throws at once
PublishNotInitialized ==
    /\ uPc = "idle"
    /\ ~uHive
    /\ uCalls < MaxPublishes
    /\ uCalls' = uCalls + 1
    /\ uPrice' = Null
    /\ uRes' = "not-initialized"
    /\ UNCHANGED <<uHive, uWallet, uPc>>
    /\ UNCHANGED fvars

\* publishFeedPrice: await priceAggregator.getAggregatedHivePrice()
PublishStart ==
    /\ uPc = "idle"
    /\ uHive
    /\ fpc = "idle"
    /\ uCalls < MaxPublishes
    /\ uCalls' = uCalls + 1
    /\ uPc' = "agg"
    /\ uPrice' = Null
    /\ uRes' = "none"
    /\ UNCHANGED <<uHive, uWallet>>
    /\ UNCHANGED fvars

\* the aggregator threw: publishFeedPrice rethrows
AggregatorThrows ==
    /\ uPc = "agg"
    /\ uPc' = "idle"
    /\ uRes' = "aggregation-failed"
    /\ UNCHANGED <<uHive, uWallet, uPrice, uCalls>>
    /\ UNCHANGED fvars

\* the aggregator returned a price that validatePrice throws on, or
\* broadcastFeedPublish finds no wallet: publishFeedPrice rethrows
PublishRejected ==
    /\ uPc = "agg"
    /\ \E p \in PublishPrices :
          /\ ~validatePrice(p) \/ ~uWallet
          /\ uPrice' = p
          /\ uRes' = IF ~validatePrice(p) THEN "invalid-price" ELSE "no-wallet"
    /\ uPc' = "idle"
    /\ UNCHANGED <<uHive, uWallet, uCalls>>
    /\ UNCHANGED fvars

\* the aggregator returned a price that passes validatePrice:
\* broadcastFeedPublish calls hiveChainFailover.executeWithFailover
PublishBroadcast ==
    /\ uPc = "agg"
    /\ uWallet
    /\ \E p \in PublishPrices :
          /\ validatePrice(p)
          /\ uPrice' = p
    /\ ExecStart
    /\ uPc' = "broadcast"
    /\ UNCHANGED <<uHive, uWallet, uCalls, uRes>>

\* executeWithFailover settled: publishFeedPrice returns the transaction id
\* or rethrows
PublishEnds ==
    /\ uPc = "broadcast"
    /\ fpc = "idle"
    /\ uPc' = "idle"
    /\ uRes' = IF fres.kind = "ok" THEN "published" ELSE "broadcast-failed"
    /\ UNCHANGED <<uHive, uWallet, uPrice, uCalls>>
    /\ UNCHANGED fvars

\* the failover wrapper
Init == FailoverInit /\ AggIdle /\ CalcIdle /\ MapIdle /\ FetchIdle /\ ReqIdle /\ BotIdle
      /\ ClassifyIdle
      /\ ValidateIdle
      /\ ProviderIdle
      /\ RegistryIdle
      /\ LazyIdle
      /\ CtorIdle
      /\ PairIdle
      /\ LifeIdle
      /\ PublisherIdle

Next ==
    \/ InitializeStart /\ UNCHANGED notFailover
    \/ InitializeDone /\ UNCHANGED notFailover
    \/ InitializeFail /\ UNCHANGED notFailover
    \/ GetChain /\ UNCHANGED notFailover
    \/ ExecNotInitialized /\ UNCHANGED notFailover
    \/ ExecStart /\ UNCHANGED notFailover
    \/ OpSucceeds /\ UNCHANGED notFailover
    \/ OpFailsNonRecoverable /\ UNCHANGED notFailover
    \/ OpFailsRecoverableRetry /\ UNCHANGED notFailover
    \/ OpFailsRecoverableExhausted /\ UNCHANGED notFailover
    \/ SleepDone /\ UNCHANGED notFailover

Spec == Init /\ [][Next]_vars

\* the aggregator
InitAgg == AggInit /\ FailoverIdle /\ CalcIdle /\ MapIdle /\ FetchIdle /\ ReqIdle /\ BotIdle
      /\ ClassifyIdle
      /\ ValidateIdle
      /\ ProviderIdle
      /\ RegistryIdle
      /\ LazyIdle
      /\ CtorIdle
      /\ PairIdle
      /\ LifeIdle
      /\ PublisherIdle

NextAgg ==
    \/ AggStart /\ UNCHANGED notAgg
    \/ ProviderSettles /\ UNCHANGED notAgg
    \/ LastProviderSettles /\ UNCHANGED notAgg
    \/ DeadlineWins /\ UNCHANGED notAgg
    \/ StaleSettles /\ UNCHANGED notAgg
    \/ AggSleepDone /\ UNCHANGED notAgg

SpecAgg == InitAgg /\ [][NextAgg]_vars

\* the two timers of a call fire: the setTimeout of createTimeoutPromise
\* while the race is undecided, and the setTimeout of sleep.  Nothing is
\* assumed of the providers: their promises may stay pending forever.
TimersFire ==
    /\ WF_vars(DeadlineWins /\ UNCHANGED notAgg)
    /\ WF_vars(AggSleepDone /\ UNCHANGED notAgg)

\* the configurations the termination check runs on: no weights at all, and
\* weights under which two successes have a total weight of zero
TerminationConfigs ==
    {[p \in Providers |-> <<>>],
     [p \in Providers |-> IF p = 1 THEN <<0 - 1>> ELSE <<0>>]}

InitAggFair == InitAgg /\ weightCfg \in TerminationConfigs

SpecAggFair == InitAggFair /\ [][NextAgg]_vars /\ TimersFire

\* the constructor and calculateFinalPrice
InitCalc == CalcInit /\ FailoverIdle /\ AggIdle /\ MapIdle /\ FetchIdle /\ ReqIdle /\ BotIdle
      /\ ClassifyIdle
      /\ ValidateIdle
      /\ ProviderIdle
      /\ RegistryIdle
      /\ LazyIdle
      /\ CtorIdle
      /\ PairIdle
      /\ LifeIdle
      /\ PublisherIdle

NextCalc ==
    \/ CalcConstruct /\ UNCHANGED notCalc
    \/ CalcFinalPrice /\ UNCHANGED notCalc

SpecCalc == InitCalc /\ [][NextCalc]_vars

\* one call of a provider-mapping function
InitMap == MapInit /\ FailoverIdle /\ AggIdle /\ CalcIdle /\ FetchIdle /\ ReqIdle /\ BotIdle
      /\ ClassifyIdle
      /\ ValidateIdle
      /\ ProviderIdle
      /\ RegistryIdle
      /\ LazyIdle
      /\ CtorIdle
      /\ PairIdle
      /\ LifeIdle
      /\ PublisherIdle

NextMap ==
    \/ MapCall /\ UNCHANGED notMap
    \/ MapProviderSettles /\ UNCHANGED notMap
    \/ MapResolve /\ UNCHANGED notMap

SpecMap == InitMap /\ [][NextMap]_vars

\* one call of fetchWithRetry
InitFetch == FetchInit /\ FailoverIdle /\ AggIdle /\ CalcIdle /\ MapIdle /\ ReqIdle /\ BotIdle
      /\ ClassifyIdle
      /\ ValidateIdle
      /\ ProviderIdle
      /\ RegistryIdle
      /\ LazyIdle
      /\ CtorIdle
      /\ PairIdle
      /\ LifeIdle
      /\ PublisherIdle

NextFetch ==
    \/ FetchCall /\ UNCHANGED notFetch
    \/ FetchSucceeds /\ UNCHANGED notFetch
    \/ FetchFails /\ UNCHANGED notFetch
    \/ FetchSleepDone /\ UNCHANGED notFetch

SpecFetch == InitFetch /\ [][NextFetch]_vars

\* one call of makeRequest
InitReq ==
    ReqInit /\ FailoverIdle /\ AggIdle /\ CalcIdle /\ MapIdle /\ FetchIdle
      /\ BotIdle
      /\ ClassifyIdle
      /\ ValidateIdle
      /\ ProviderIdle
      /\ RegistryIdle
      /\ LazyIdle
      /\ CtorIdle
      /\ PairIdle
      /\ LifeIdle
      /\ PublisherIdle

NextReq ==
    \/ ReqCall /\ UNCHANGED notReq
    \/ ReqOpSucceeds /\ UNCHANGED notReq
    \/ ReqOpFails /\ UNCHANGED notReq
    \/ ReqSleepDone /\ UNCHANGED notReq

SpecReq == InitReq /\ [][NextReq]_vars

\* one call of createPriceError
InitClassify ==
    ClassifyInit /\ FailoverIdle /\ AggIdle /\ CalcIdle /\ MapIdle /\ FetchIdle
      /\ ReqIdle /\ BotIdle
      /\ ValidateIdle
      /\ ProviderIdle
      /\ RegistryIdle
      /\ LazyIdle
      /\ CtorIdle
      /\ PairIdle
      /\ LifeIdle
      /\ PublisherIdle

NextClassify ==
    \/ ClassifyCall /\ UNCHANGED notClassify

SpecClassify == InitClassify /\ [][NextClassify]_vars

\* validatePriceData
InitValidate ==
    ValidateInit /\ FailoverIdle /\ AggIdle /\ CalcIdle /\ MapIdle /\ FetchIdle
      /\ ReqIdle /\ BotIdle /\ ClassifyIdle
      /\ ProviderIdle
      /\ RegistryIdle
      /\ LazyIdle
      /\ CtorIdle
      /\ PairIdle
      /\ LifeIdle
      /\ PublisherIdle

NextValidate ==
    \/ ValidateCall /\ UNCHANGED notValidate

SpecValidate == InitValidate /\ [][NextValidate]_vars

\* getHivePrice of a provider
InitProvider ==
    ProviderInit /\ FailoverIdle /\ AggIdle /\ CalcIdle /\ MapIdle /\ FetchIdle
      /\ ReqIdle /\ BotIdle /\ ClassifyIdle /\ ValidateIdle
      /\ RegistryIdle
      /\ LazyIdle
      /\ CtorIdle
      /\ PairIdle
      /\ LifeIdle
      /\ PublisherIdle

NextProvider ==
    \/ ProviderCall /\ UNCHANGED notProvider

SpecProvider == InitProvider /\ [][NextProvider]_vars

\* the provider registry
InitRegistry ==
    RegistryInit /\ FailoverIdle /\ AggIdle /\ CalcIdle /\ MapIdle /\ FetchIdle
      /\ ReqIdle /\ BotIdle /\ ClassifyIdle /\ ValidateIdle /\ ProviderIdle
      /\ LazyIdle
      /\ CtorIdle
      /\ PairIdle
      /\ LifeIdle
      /\ PublisherIdle

NextRegistry ==
    \/ RegisterDescriptor /\ UNCHANGED notRegistry
    \/ RegisterProvider /\ UNCHANGED notRegistry
    \/ GetProvider /\ UNCHANGED notRegistry
    \/ GetAvailableProviders /\ UNCHANGED notRegistry
    \/ LoadProvidersFromEnv /\ UNCHANGED notRegistry

SpecRegistry == InitRegistry /\ [][NextRegistry]_vars

\* a LazyModuleProvider
InitLazy ==
    LazyInit /\ FailoverIdle /\ AggIdle /\ CalcIdle /\ MapIdle /\ FetchIdle
      /\ ReqIdle /\ BotIdle /\ ClassifyIdle /\ ValidateIdle /\ ProviderIdle
      /\ RegistryIdle
      /\ CtorIdle
      /\ PairIdle
      /\ LifeIdle
      /\ PublisherIdle

NextLazy ==
    \/ LazyGetHivePrice /\ UNCHANGED notLazy
    \/ LazyImported /\ UNCHANGED notLazy
    \/ LazyImportFails /\ UNCHANGED notLazy
    \/ LazyPriceSettles /\ UNCHANGED notLazy

SpecLazy == InitLazy /\ [][NextLazy]_vars

\* construction and use of a PriceAggregator
InitCtor ==
    CtorInit /\ FailoverIdle /\ AggIdle /\ CalcIdle /\ MapIdle /\ FetchIdle
      /\ ReqIdle /\ BotIdle /\ ClassifyIdle /\ ValidateIdle /\ ProviderIdle
      /\ RegistryIdle /\ LazyIdle
      /\ PairIdle
      /\ LifeIdle
      /\ PublisherIdle

NextCtor ==
    \/ ConstructWith /\ UNCHANGED notCtor
    \/ ConstructDefault /\ UNCHANGED notCtor
    \/ AddProvider /\ UNCHANGED notCtor
    \/ HostRemovesProvider /\ UNCHANGED notCtor
    \/ GetAggregatedHivePrice /\ UNCHANGED notCtor
    \/ XRoundSucceeds /\ UNCHANGED notCtor
    \/ XRoundFails /\ UNCHANGED notCtor
    \/ XSleepDone /\ UNCHANGED notCtor

SpecCtor == InitCtor /\ [][NextCtor]_vars

\* the bot
InitBot == BotInit /\ AggIdle /\ CalcIdle /\ MapIdle /\ FetchIdle /\ ReqIdle
      /\ ClassifyIdle
      /\ ValidateIdle
      /\ ProviderIdle
      /\ RegistryIdle
      /\ LazyIdle
      /\ CtorIdle
      /\ PairIdle
      /\ LifeIdle
      /\ PublisherIdle

NextBot ==
    \/ BotStart /\ UNCHANGED <<callerLocals, notBot>>
    \/ BotInitialized /\ UNCHANGED <<callerLocals, notBot>>
    \/ BotInitFails /\ UNCHANGED <<callerLocals, notBot>>
    \/ BotStarted /\ UNCHANGED <<callerLocals, notBot>>
    \/ TimerFires /\ UNCHANGED <<callerLocals, notBot>>
    \/ BotStop /\ UNCHANGED <<callerLocals, notBot>>
    \/ PubNoPrice /\ UNCHANGED <<callerLocals, notBot>>
    \/ PubExecStart /\ UNCHANGED <<callerLocals, notBot>>
    \/ PubOpEnds /\ UNCHANGED <<callerLocals, notBot>>
    \/ PubOpFailsRecoverable /\ UNCHANGED <<callerLocals, notBot>>
    \/ PubSleepDone /\ UNCHANGED <<callerLocals, notBot>>

SpecBot == InitBot /\ [][NextBot]_vars

InitPair ==
    PairInit /\ FailoverIdle /\ AggIdle /\ CalcIdle /\ MapIdle /\ FetchIdle
      /\ ReqIdle /\ BotIdle /\ ClassifyIdle /\ ValidateIdle /\ ProviderIdle
      /\ RegistryIdle /\ LazyIdle /\ CtorIdle
      /\ LifeIdle
      /\ PublisherIdle

NextPair ==
    \/ PairCall /\ UNCHANGED notPair
    \/ PairHttpSucceeds /\ UNCHANGED notPair
    \/ PairHttpFails /\ UNCHANGED notPair
    \/ PairDriverSleepDone /\ UNCHANGED notPair
    \/ PairFetchSleepDone /\ UNCHANGED notPair

SpecPair == InitPair /\ [][NextPair]_vars

\* start() and stop() on one bot
InitLife ==
    LifeInit /\ FailoverIdle /\ AggIdle /\ CalcIdle /\ MapIdle /\ FetchIdle
      /\ ReqIdle /\ BotIdle /\ ClassifyIdle /\ ValidateIdle /\ ProviderIdle
      /\ RegistryIdle /\ LazyIdle /\ CtorIdle /\ PairIdle
      /\ PublisherIdle

NextLife ==
    \/ LifeStart /\ UNCHANGED notLife
    \/ LifeInitialized /\ UNCHANGED notLife
    \/ LifeInitFails /\ UNCHANGED notLife
    \/ LifeArmTimer /\ UNCHANGED notLife
    \/ LifeTimerFires /\ UNCHANGED notLife
    \/ LifeStop /\ UNCHANGED notLife

SpecLife == InitLife /\ [][NextLife]_vars

\* publishFeedPrice calls on one publisher; the wrapper is built as
\* FeedPublisher.initialize() builds it, with maxRetries = rpcNodes.length * 2
InitPublish ==
    FailoverInit /\ maxRetries = DefaultMaxRetries(nodes) /\ PublisherInit
      /\ AggIdle /\ CalcIdle /\ MapIdle /\ FetchIdle /\ ReqIdle /\ BotIdle
      /\ ClassifyIdle /\ ValidateIdle /\ ProviderIdle /\ RegistryIdle
      /\ LazyIdle /\ CtorIdle /\ PairIdle /\ LifeIdle

NextPublish ==
    \/ PublisherInitStart /\ UNCHANGED notPublish
    \/ PublisherInitConnected /\ UNCHANGED notPublish
    \/ PublisherInitFails /\ UNCHANGED notPublish
    \/ PublishNotInitialized /\ UNCHANGED notPublish
    \/ PublishStart /\ UNCHANGED notPublish
    \/ AggregatorThrows /\ UNCHANGED notPublish
    \/ PublishRejected /\ UNCHANGED notPublish
    \/ PublishBroadcast /\ UNCHANGED notPublish
    \/ OpSucceeds /\ UNCHANGED uvars /\ UNCHANGED notPublish
    \/ OpFailsNonRecoverable /\ UNCHANGED uvars /\ UNCHANGED notPublish
    \/ OpFailsRecoverableRetry /\ UNCHANGED uvars /\ UNCHANGED notPublish
    \/ OpFailsRecoverableExhausted /\ UNCHANGED uvars /\ UNCHANGED notPublish
    \/ SleepDone /\ UNCHANGED uvars /\ UNCHANGED notPublish
    \/ PublishEnds /\ UNCHANGED notPublish

SpecPublish == InitPublish /\ [][NextPublish]_vars

(***************************************************************************)
(* Claims about the failover wrapper (specification Spec)                  *)
(***************************************************************************)
RecoverableClasses == {"WaxRequestTimeoutError",
                       "WaxNon_2XX_3XX_ResponseCodeError",
                       "WaxUnknownRequestError"}
NonRecoverableClasses == ErrorClasses \ RecoverableClasses

\* C1: a call that returns a result did so after k-1 recoverable failures and
\* k invocations (k <= maxRetries), returns the k-th invocation's result and
\* leaves the current index at (i0 + k - 1) mod n.
C1_SuccessAfterRotation ==
    fres.kind = "ok" =>
        /\ invocations = recovFailures + 1
        /\ invocations >= 1
        /\ invocations <= maxRetries
        /\ fres.val = invocations
        /\ currentNodeIndex = (i0 + invocations - 1) % nodes
        /\ chain = currentNodeIndex

\* endpoints [A, B, C]: recoverable failures on A and B, success on C
C1_Witness ==
    /\ fres.kind = "ok"
    /\ nodes = 3
    /\ i0 = 0
    /\ invocations = 3
    /\ recovFailures = 2
    /\ currentNodeIndex = 2

\* C2: the step in which an attempt fails with a non-recoverable error ends
\* the call with that same error, without another invocation, without
\* advancing the current index and without a backoff sleep.
C2_NonRecoverablePropagates ==
    [][(fpc = "op" /\ lastError' # lastError
            /\ lastError'.cls \in NonRecoverableClasses)
        => /\ fpc' = "idle"
           /\ fres'.kind = "err"
           /\ fres'.err = lastError'
           /\ lastError'.id = invocations
           /\ invocations' = invocations
           /\ currentNodeIndex' = currentNodeIndex
           /\ chain' = chain
           /\ sleeps' = sleeps]_vars

\* a non-recoverable error on the first of three endpoints
C2_Witness ==
    /\ fres.kind = "err"
    /\ fres.err.cls = "Error"
    /\ nodes = 3
    /\ invocations = 1
    /\ currentNodeIndex = i0
    /\ sleeps = 0

\* C3: a call that ends with a recoverable error has invoked the operation
\* exactly maxRetries times, every invocation failed recoverably, and the
\* error is the one raised by the last invocation.
C3_ExhaustedBudget ==
    (fres.kind = "err" /\ fres.err.cls \in RecoverableClasses) =>
        /\ invocations = maxRetries
        /\ recovFailures = maxRetries
        /\ fres.err.id = maxRetries
        /\ fres.err = lastError

\* the default budget on three endpoints: six attempts
C3_Witness ==
    /\ fres.kind = "err"
    /\ fres.err.cls \in RecoverableClasses
    /\ nodes = 3
    /\ maxRetries = 6
    /\ invocations = 6

\* C4: the current index changes only in the rotation step after a
\* recoverable failure with attempts remaining (by one, wrapping), and a new
\* call starts on the endpoint where the wrapper was left.
C4_IndexChangesOnlyInRotation ==
    /\ [][currentNodeIndex' # currentNodeIndex
            => /\ fpc = "op"
               /\ fpc' = "sleep"
               /\ lastError'.cls \in RecoverableClasses
               /\ attempt' < maxRetries
               /\ currentNodeIndex' = (currentNodeIndex + 1) % nodes]_vars
    /\ [][(fpc = "idle" /\ fpc' = "op")
            => /\ currentNodeIndex' = currentNodeIndex
               /\ opNode' = currentNodeIndex]_vars
    /\ [][nodes > 1 /\ fpc = "op" /\ fpc' = "sleep"
            => currentNodeIndex' # currentNodeIndex]_vars

\* a later call starts on the endpoint a previous call rotated to
C4_Witness ==
    /\ fpc = "op"
    /\ invocations = 1
    /\ nodes = 3
    /\ i0 = 2
    /\ opNode = 2

\* C5: while this.chain is null (initialize() not called, pending or
\* failed) every executeWithFailover and getChain call ends at once with the
\* initialization error: no invocation, no rotation, no sleep.
C5_NotInitializedFailsFast ==
    chain = Null =>
        /\ fpc = "idle"
        /\ fres.kind \in {"none", "initerr"}
        /\ fres.kind = "initerr" => fres.err = InitError
        /\ gres \in {"none", "initerr"}
        /\ invocations = 0
        /\ sleeps = 0
        /\ currentNodeIndex = 0

\* both calls made while initialize() is still awaiting createHiveChain
C5_Witness ==
    /\ chain = Null
    /\ initPc = "pending"
    /\ fres.kind = "initerr"
    /\ gres = "initerr"

(***************************************************************************)
(* Claims about the aggregator (specification SpecAgg)                     *)
(***************************************************************************)
RoundEnded == roundsRun >= 1 /\ apc # "round"

RECURSIVE WeightSum(_)
WeightSum(eps) ==
    IF eps = <<>> THEN 0
    ELSE (LET c == weightCfg[Head(eps).exchange]
          IN IF c = <<>> \/ c = <<0>> THEN 1 ELSE c[1]) + WeightSum(Tail(eps))

\* C6: a call that ends with the error has run exactly 3 rounds, slept 2000
\* and then 4000 between them (nothing after the last), and the error states
\* the retry count 3; while it runs, round a is preceded by the sleeps
\* 2000 x 1 .. 2000 x (a-1).
C6_AllRoundsFail ==
    /\ ares.kind = "err" =>
          /\ apc = "done"
          /\ roundsRun = 3
          /\ aSleeps = <<2000, 4000>>
          /\ ares.round = 3
    /\ apc = "round" =>
          /\ roundsRun = aAttempt
          /\ roundsRun <= 3
          /\ aSleeps = [i \in 1..(aAttempt - 1) |-> 2000 * i]
    /\ apc = "sleep" =>
          /\ roundsRun = aAttempt
          /\ roundsRun < 3
          /\ aSleeps = [i \in 1..aAttempt |-> 2000 * i]

\* every provider failed in each of the three rounds, none timed out
C6_Witness ==
    /\ ares.kind = "err"
    /\ timedOut = {}
    /\ weightCfg = [p \in Providers |-> <<>>]
    /\ Len(exchangePrices) = NumProviders
    /\ \A i \in 1..Len(exchangePrices) : ~exchangePrices[i].success

C8_DeadlineIsEmptyRound ==
    [][timedOut' # timedOut
        => /\ timedOut' = timedOut \cup {aAttempt}
           /\ exchangePrices' = <<>>
           /\ IF aAttempt < 3
                THEN /\ apc' = "sleep"
                     /\ aSleeps' = Append(aSleeps, 2000 * aAttempt)
                     /\ ares' = ares
                     /\ ares.kind = "none"
                ELSE /\ apc' = "done"
                     /\ aSleeps' = aSleeps
                     /\ ares'.kind = "err"
                     /\ ares'.round = 3]_vars

\* the deadline won all three rounds
C8_Witness ==
    /\ timedOut = {1, 2, 3}
    /\ ares.kind = "err"
    /\ aSleeps = <<2000, 4000>>

\* C9 as stated: every success settled in a round that ended is part of
\* that round's collected result.
C9_Original ==
    RoundEnded =>
        \A p \in Providers :
            entries[p].success =>
                \E i \in 1..Len(exchangePrices) : exchangePrices[i] = entries[p]

\* C9 amended: a round in which every provider settled before the deadline
\* collects every provider's outcome, in provider order, and a price
\* returned from it is the combination of all its successes; a round whose
\* deadline won collects nothing, whatever had succeeded by then.
C9_CollectedUnlessDeadline ==
    RoundEnded =>
        IF roundsRun \in timedOut
          THEN /\ exchangePrices = <<>>
               /\ ares.kind # "ok"
          ELSE /\ Len(exchangePrices) = NumProviders
               /\ \A p \in Providers :
                     /\ entries[p].error # "pending"
                     /\ exchangePrices[p] = entries[p]
               /\ ares.kind = "ok" =>
                     ares.price = calculateFinalPrice(weightCfg,
                                      Successful([p \in Providers |-> entries[p]]))

\* a success is collected beside a sibling that failed
C9_Witness ==
    /\ RoundEnded
    /\ roundsRun \notin timedOut
    /\ \E p, q \in Providers :
          /\ entries[p].success
          /\ ~entries[q].success
          /\ exchangePrices[p] = entries[p]
          /\ exchangePrices[q] = entries[q]

\* C10 as stated: no provider has invocations of two rounds in flight.
C10_Original ==
    \A pr1, pr2 \in inflight : pr1[1] = pr2[1] => pr1[2] = pr2[2]

\* C10 amended: an invocation in flight belongs to the round being awaited
\* or to a round whose deadline won; a round is started only after the
\* previous one ended, by all its invocations settling or by its deadline.
C10_OverlapOnlyAfterDeadline ==
    /\ \A pr \in inflight :
          \/ apc = "round" /\ pr[2] = aAttempt
          \/ pr[2] \in timedOut
    /\ \A r \in 1..roundsRun :
          (r < roundsRun \/ apc # "round") =>
              \/ r \in timedOut
              \/ \A p \in Providers : <<p, r>> \notin inflight

\* one provider with invocations of rounds 1 and 2 in flight
C10_Witness ==
    /\ apc = "round"
    /\ aAttempt = 2
    /\ 1 \in timedOut
    /\ \E p \in Providers : {<<p, 1>>, <<p, 2>>} \subseteq inflight

\* the weight attached to an entry of the aggregator's round
AttachedWeight(ep) ==
    LET c == weightCfg[ep.exchange]
    IN IF c = <<>> \/ c = <<0>> THEN 1 ELSE c[1]

WeightingActive(eps) == \E i \in 1..Len(eps) : AttachedWeight(eps[i]) # 1

RECURSIVE WeightedPriceSum(_)
WeightedPriceSum(eps) ==
    IF eps = <<>> THEN 0
    ELSE Head(eps).price * AttachedWeight(Head(eps)) + WeightedPriceSum(Tail(eps))

RECURSIVE PlainPriceSum(_)
PlainPriceSum(eps) ==
    IF eps = <<>> THEN 0 ELSE Head(eps).price + PlainPriceSum(Tail(eps))

\* C14: with weighting active the returned price is the sum of price x weight
\* over the successful entries divided by the sum of their weights, rounded to
\* three decimals (9.0 with weight 2 and 12.0 with weight 1 give 10.000), and
\* the combination fails when the weights of the successful entries sum to
\* zero.
C14_WeightedAverage ==
    LET succ == Successful(exchangePrices) IN
    /\ (ares.kind = "ok" /\ WeightingActive(succ))
          => /\ WeightSum(succ) # 0
             /\ ares.price = RoundDiv(WeightedPriceSum(succ), WeightSum(succ))
    /\ (RoundEnded /\ succ # <<>> /\ WeightingActive(succ) /\ WeightSum(succ) = 0)
          => ares.kind # "ok"
    /\ (ares.kind = "ok" /\ Len(succ) = 2
           /\ succ[1].price = 9000 /\ AttachedWeight(succ[1]) = 2
           /\ succ[2].price = 12000000 /\ AttachedWeight(succ[2]) = 1)
          => ares.price = 4006000

\* 9.0 with weight 2 and 12000.0 with weight 1 were combined to 4006.000
C14_Witness ==
    LET succ == Successful(exchangePrices) IN
    /\ ares.kind = "ok"
    /\ Len(succ) = 2
    /\ succ[1].price = 9000 /\ AttachedWeight(succ[1]) = 2
    /\ succ[2].price = 12000000 /\ AttachedWeight(succ[2]) = 1
    /\ ares.price = 4006000

(***************************************************************************)
(* Claims about the constructor and calculateFinalPrice (specification     *)
(* SpecCalc)                                                               *)
(***************************************************************************)
\* the elements of the constructor's config whose name is the given name up
\* to case
ConfiguredFor(name) ==
    {i \in 1..Len(cConfig) : toLowerCase(cConfig[i].name) = toLowerCase(name)}

\* C12: once calculateFinalPrice has run, every successful entry carries
\* exactly the weight configured for its provider, the provider's name looked
\* up without regard to case, and carries 1.0 when nothing is configured for
\* it.
C12_ConfiguredWeightAttached ==
    cpc = "done" =>
        /\ Len(cWeighted) = Len(cSuccessful)
        /\ \A i \in 1..Len(cWeighted) :
              /\ cWeighted[i].exchange = cSuccessful[i].exchange
              /\ cWeighted[i].price = cSuccessful[i].price
              /\ ConfiguredFor(cWeighted[i].exchange) = {}
                    => cWeighted[i].weight = 1
              /\ \A j \in ConfiguredFor(cWeighted[i].exchange) :
                    cWeighted[i].weight = cConfig[j].weight

\* C13: calculateFinalPrice takes the weighted average exactly when a
\* successful entry has an attached weight other than 1.0, and the plain mean
\* over the successes otherwise; the weights configured for providers that
\* are not among the successes play no part.
C13_WeightedIffSuccessWeighted ==
    cpc = "done" =>
        /\ cOut.method = "weighted"
              <=> \E i \in 1..Len(cWeighted) : cWeighted[i].weight # 1
        /\ cOut.method = "plain"
              <=> \A i \in 1..Len(cWeighted) : cWeighted[i].weight = 1
        /\ cOut.method = "plain" => cOut.kind = "ok"

\* a weight other than 1.0 is configured for a provider that failed, none for
\* the two that succeeded: the plain mean was taken
C13_Witness ==
    /\ cpc = "done"
    /\ cOut.method = "plain"
    /\ Len(cSuccessful) = 2
    /\ \E j \in 1..Len(cConfig) :
          /\ cConfig[j].weight = 2
          /\ \A i \in 1..Len(cSuccessful) :
                toLowerCase(cSuccessful[i].exchange) # toLowerCase(cConfig[j].name)

RECURSIVE PriceSum(_)
PriceSum(eps) ==
    IF eps = <<>> THEN 0 ELSE Head(eps).price + PriceSum(Tail(eps))

\* C15: when no attached weight differs from 1.0, calculateFinalPrice
\* returns the sum of the k prices as received, divided by k and rounded once
\* to three decimals; 9.999, 10.000, 10.002 give 10.000, and 10.0, 10.0, 10.0
\* with equal weights give 10.000.
C15_RoundedOnceAtTheEnd ==
    cpc = "done" =>
        /\ (\A i \in 1..Len(cWeighted) : cWeighted[i].weight = 1)
              => /\ cOut.kind = "ok"
                 /\ cOut.price = RoundDiv(PriceSum(cSuccessful), Len(cSuccessful))
        /\ ([i \in 1..Len(cSuccessful) |-> cSuccessful[i].price]
                  = <<9999, 10000, 10002>>
              /\ \A i \in 1..Len(cWeighted) : cWeighted[i].weight = 1)
              => cOut.kind = "ok" /\ cOut.price = 10000
        /\ ([i \in 1..Len(cSuccessful) |-> cSuccessful[i].price]
                  = <<10000, 10000, 10000>>
              /\ \A i, j \in 1..Len(cWeighted) :
                    cWeighted[i].weight = cWeighted[j].weight)
              => cOut.kind = "ok" /\ cOut.price = 10000

\* 9.999, 10.000 and 10.002 were combined without weights
C15_Witness ==
    /\ cpc = "done"
    /\ [i \in 1..Len(cSuccessful) |-> cSuccessful[i].price] = <<9999, 10000, 10002>>
    /\ \A i \in 1..Len(cWeighted) : cWeighted[i].weight = 1
    /\ cOut.price = 10000

(***************************************************************************)
(* Claims about the provider-mapping functions (specification SpecMap)     *)
(***************************************************************************)
Raised(p) == mOutcome[p].kind = "throw"

\* C16: a getDetailedPrices call that ended did not fail: it returned one
\* entry per provider, in provider order, the entry of every provider whose
\* getHivePrice raised being success=false with price 0 and an error message;
\* no getHivePrice was invoked twice and the result is the entries alone.
C16_DetailedNeverFails ==
    (mFn = "detailed" /\ mpc = "done") =>
        /\ mRes.kind = "entries"
        /\ Len(mRes.entries) = NumProviders
        /\ \A p \in Providers :
              /\ mInvoked[p] <= 1
              /\ mProviders[p] = "ok" => mRes.entries[p].exchange = p
              /\ Raised(p) => /\ ~mRes.entries[p].success
                              /\ mRes.entries[p].price = 0
                              /\ mRes.entries[p].error # "none"

\* every provider raised and the call returned the failed entries
C16_Witness ==
    /\ mFn = "detailed" /\ mpc = "done"
    /\ \A p \in Providers : Raised(p) /\ ~mRes.entries[p].success

\* C17: a round of mapProvidersToExchangePrices that settled yielded entries
\* and no exception: one per provider, in provider order; a provider that
\* raised or returned a non-positive or not-a-number value appears with
\* success=false, price 0 and a message, and every other proper provider's
\* entry is its own valid price, whatever the others did.
C17_ErrorsStayInEntries ==
    (mFn = "exchange" /\ mpc = "done") =>
        /\ mRes.kind = "entries"
        /\ Len(mRes.entries) = NumProviders
        /\ \A p \in Providers :
              /\ mProviders[p] = "ok" => mRes.entries[p].exchange = p
              /\ (Raised(p)
                   \/ (mOutcome[p].kind = "value"
                        /\ (mOutcome[p].v = NaN \/ mOutcome[p].v <= 0)))
                    => /\ ~mRes.entries[p].success
                       /\ mRes.entries[p].price = 0
                       /\ mRes.entries[p].error # "none"
              /\ (mOutcome[p].kind = "value"
                    /\ mOutcome[p].v # NaN /\ mOutcome[p].v > 0)
                    => /\ mRes.entries[p].success
                       /\ mRes.entries[p].price = mOutcome[p].v

\* the first provider raised, the last returned a price: both are entries
C17_Witness ==
    /\ mFn = "exchange" /\ mpc = "done"
    /\ Raised(1) /\ ~mRes.entries[1].success
    /\ mOutcome[NumProviders].kind = "value"
    /\ mRes.entries[NumProviders].success
    /\ mRes.entries[NumProviders].price = 10500

(***************************************************************************)
(* Claims about fetchWithRetry (specification SpecFetch)                   *)
(***************************************************************************)
FailedCalls == SelectSeq(wCalls, LAMBDA c : c.kind = "err")

\* C18: fetchWithRetry invokes fetchFn at most retryAttempts times, one at a
\* time; it returns the first success at once; after the a-th failure it
\* sleeps retryDelay x 2^(a-1) only when another attempt follows, and never
\* before the first attempt; it raises the last error only after
\* retryAttempts failures.  With the defaults, two failures and then 10.500:
\* two sleeps of 1000 and 2000, and 10.500 is returned.
C18_FetchWithRetry ==
    /\ Len(wCalls) <= retryAttempts
    /\ wpc = "fetch" => Len(wCalls) = wAttempt - 1 /\ wAttempt <= retryAttempts
    /\ \A i \in 1..(Len(wCalls) - 1) : wCalls[i].kind = "err"
    /\ wSleeps = [a \in 1..Len(wSleeps) |-> retryDelay * (2 ^ (a - 1))]
    /\ wpc = "sleep" => /\ Len(wSleeps) = Len(FailedCalls)
                        /\ Len(FailedCalls) = wAttempt
                        /\ wAttempt < retryAttempts
    /\ wpc = "fetch" => Len(wSleeps) = Len(FailedCalls)
    /\ wRes.kind = "ok" =>
          /\ wpc = "done"
          /\ wCalls[Len(wCalls)] = [kind |-> "ok", val |-> wRes.val]
          /\ Len(wSleeps) = Len(wCalls) - 1
    /\ wRes.kind = "err" =>
          /\ wpc = "done"
          /\ Len(FailedCalls) = retryAttempts
          /\ Len(wCalls) = retryAttempts
          /\ retryAttempts > 0 => /\ wRes.val = wCalls[Len(wCalls)].val
                                  /\ Len(wSleeps) = retryAttempts - 1
    /\ (retryAttempts = DefaultRetryAttempts /\ retryDelay = DefaultRetryDelay
          /\ Len(wCalls) = 3 /\ wCalls[3] = [kind |-> "ok", val |-> 10500])
          => /\ wSleeps = <<1000, 2000>>
             /\ wRes = [kind |-> "ok", val |-> 10500]

\* with the defaults the fetch failed twice and then gave 10.500
C18_Witness ==
    /\ retryAttempts = 3 /\ retryDelay = 1000
    /\ Len(wCalls) = 3
    /\ wCalls[1].kind = "err" /\ wCalls[2].kind = "err"
    /\ wRes = [kind |-> "ok", val |-> 10500]
    /\ wSleeps = <<1000, 2000>>

(***************************************************************************)
(* Claims about makeRequest and executeWithRetry (specification SpecReq)   *)
(***************************************************************************)
IsTyped(e) == e.cls \in {"PriceNetworkError", "PriceAPIError"}

\* C19: when the operation raises an error that is already typed, the retry
\* driver retries (an attempt being left) exactly when that error reports
\* itself retryable, and then waits that error's own retry delay.
C19_TypedErrorDecides ==
    \A i \in 1..Len(qThrown) :
        IsTyped(qThrown[i]) =>
            /\ Len(qSleeps) >= i
                  <=> (isRetryable(qThrown[i]) /\ i < EffectiveMaxRetries)
            /\ Len(qSleeps) >= i => qSleeps[i] = getRetryDelay(qThrown[i])

\* the code the response-status table gives for what fetch did
TableCode(resp) ==
    IF resp.kind = "abort" THEN "PRICE_NETWORK_TIMEOUT"
    ELSE IF resp.kind = "badjson" THEN "PRICE_API_INVALID_RESPONSE"
    ELSE IF resp.status = 429 THEN "PRICE_API_RATE_LIMITED"
    ELSE IF resp.status >= 500 THEN "PRICE_API_SERVER_ERROR"
    ELSE IF resp.status = 404 THEN "PRICE_API_NOT_FOUND"
    ELSE "PRICE_API_INVALID_RESPONSE"

\* C20: the error makeRequest raises carries the code the response-status
\* table gives for the last response: 429 rate-limited (with the Retry-After
\* seconds when the header is present), 500 and above server-error, 404
\* not-found, any other non-2xx and an undecodable body invalid-response, the
\* abort at the timeout network-timeout.
C20_SurfacedCodeFollowsTable ==
    (qRes.kind = "err" /\ qResponses[Len(qResponses)].kind # "netfail") =>
        LET resp == qResponses[Len(qResponses)] IN
        /\ qRes.err.code = TableCode(resp)
        /\ (resp.status = 429 /\ resp.header # Null)
              => qRes.err.retryAfter = resp.header

(***************************************************************************)
(* Claims about the bot (specification SpecBot)                            *)
(***************************************************************************)
\* the publishFeed calls whose executeWithFailover has not returned
InFailover == {s \in Pubs : pubPc[s] \in {"op", "sleep"}}

\* C11: at most one executeWithFailover call is in flight on the publisher's
\* wrapper, and the live endpoint is the one the operation in flight was
\* started against.
C11_OneCallInFlight ==
    /\ Cardinality(InFailover) <= 1
    /\ \A s \in Pubs : pubPc[s] = "op" => chain = pubOpNode[s]

(***************************************************************************)
(* Claims about the error classifier (specification SpecClassify)          *)
(***************************************************************************)
\* the rule of the decision order that a message matches first
FirstRule(m) ==
    IF "timeout" \in m.marks \/ "ETIMEDOUT" \in m.marks THEN "timeout"
    ELSE IF "ECONNREFUSED" \in m.marks \/ {"connection", "failed"} \subseteq m.marks
      THEN "connection"
    ELSE IF "rate limit" \in m.marks \/ "429" \in m.marks THEN "ratelimit"
    ELSE IF m.status # Null /\ m.status >= 500 THEN "server"
    ELSE IF m.status = 404 THEN "notfound"
    ELSE IF m.status \in {401, 403} THEN "unauthorized"
    ELSE "invalid"

\* what the decision order gives for a rule: code, retryable, delay
RuleCode(r) ==
    CASE r = "timeout" -> "PRICE_NETWORK_TIMEOUT"
      [] r = "connection" -> "PRICE_NETWORK_CONNECTION_FAILED"
      [] r = "ratelimit" -> "PRICE_API_RATE_LIMITED"
      [] r = "server" -> "PRICE_API_SERVER_ERROR"
      [] r = "notfound" -> "PRICE_API_NOT_FOUND"
      [] r = "unauthorized" -> "PRICE_API_UNAUTHORIZED"
      [] OTHER -> "PRICE_API_INVALID_RESPONSE"

RuleRetryable(r) == r \in {"timeout", "connection", "ratelimit", "server"}

RuleDelay(r, m) ==
    CASE r = "timeout" -> 2000
      [] r = "connection" -> 3000
      [] r = "ratelimit" -> IF m.after # Null THEN m.after * 1000 ELSE 5000
      [] r = "server" -> 3000
      [] OTHER -> 0

ClassifiedAs(r) ==
    /\ kError.code = RuleCode(r)
    /\ isRetryable(kError) = RuleRetryable(r)
    /\ RuleRetryable(r) => getRetryDelay(kError) = RuleDelay(r, kMessage)

CarriesContext ==
    /\ kErrContext.operation = kContext.operation
    /\ kErrContext.exchangeName =
         (IF kContext.exchangeName = "" THEN "Unknown" ELSE kContext.exchangeName)

\* C21: the error returned by the classifier is the one of the first rule of
\* the decision order that the message matches (type, retryability and
\* retry delay), and it carries the exchange name and the operation name.
C21_FirstMatchingRule ==
    kpc = "done" => ClassifiedAs(FirstRule(kMessage)) /\ CarriesContext

\* the same for every message but a rate-limited one with a retry-after of 0
C21_ButZeroRetryAfter ==
    kpc = "done" /\ ~(FirstRule(kMessage) = "ratelimit" /\ kMessage.after = 0)
      => ClassifiedAs(FirstRule(kMessage)) /\ CarriesContext

(***************************************************************************)
(* Claims about validatePriceData (specification SpecValidate)             *)
(***************************************************************************)
\* the number a string of at most MaxInputLen characters denotes when all of
\* it is a number, and what the input coerces to
CoercesTo(data) ==
    IF data.type = "string" THEN parseFloat(data.str) ELSE ToNumber(data)

\* the one outcome the validation order gives the input
ExpectedOutcome(data) ==
    IF data.type \in {"null", "undefined"} THEN Throws("PRICE_MISSING_PRICE_FIELD")
    ELSE IF CoercesTo(data) \in {NaN, Infinity, NegInfinity}
      THEN Throws("PRICE_INVALID_PRICE_DATA")
    ELSE IF CoercesTo(data) <= 0 \/ CoercesTo(data) > 10000 * 1000
      THEN Throws("PRICE_OUT_OF_RANGE")
    ELSE Returns(CoercesTo(data))

\* C22: every call of validatePriceData has the one outcome its input gets
\* from the order absent, not a finite number, out of range, valid; the
\* outcome is the same on every call.
C22_OneOutcomePerInput ==
    \A k \in 1..Len(vOuts) : vOuts[k] = ExpectedOutcome(vData)

\* an in-range string price was returned as a number, twice
C22_Witness ==
    /\ Len(vOuts) = 2
    /\ vData.type = "string"
    /\ vOuts[2].kind = "return"
    /\ vOuts[2].value = 11000

(***************************************************************************)
(* Claims about the value the aggregator returns (specification SpecAgg)   *)
(***************************************************************************)
\* finite and in the validator's range 0 < p <= 10000
Validated(p) == p \notin {NaN, Infinity, NegInfinity} /\ 0 < p /\ p <= 10000 * 1000

\* C23: every value getAggregatedHivePrice returns is finite and lies in the
\* validator's range 0 < p <= 10000.
C23_ReturnsValidatedNumber ==
    ares.kind = "ok" => Validated(ares.price)

(***************************************************************************)
(* Claims about the providers (specification SpecProvider)                 *)
(***************************************************************************)
RECURSIVE SumSeq(_)
SumSeq(values) == IF values = <<>> THEN 0 ELSE Head(values) + SumSeq(Tail(values))

\* the prices of the pairs whose answer passes the validator
RECURSIVE ValidatedPrices(_)
ValidatedPrices(raws) ==
    IF raws = <<>> THEN <<>>
    ELSE LET v == validatePriceData(FieldOf(Head(raws))) IN
         IF Head(raws).kind = "fail" \/ v.kind = "throw"
           THEN ValidatedPrices(Tail(raws))
         ELSE <<v.value>> \o ValidatedPrices(Tail(raws))

\* C24: a value returned by a provider's getHivePrice is finite and in the
\* range 0 < p <= 10000, and it is made of the pairs that passed the
\* validator only: a raw value out of range or not numeric is neither
\* returned nor averaged.
C24_ProvidersReturnValidated ==
    (gpc = "done" /\ gOut.kind = "return")
       => /\ Validated(gOut.value)
          /\ ValidatedPrices(gRaw) # <<>>
          /\ gOut.value = RoundDiv(SumSeq(ValidatedPrices(gRaw)),
                                   Len(ValidatedPrices(gRaw)))

\* the same for the providers that call validatePriceData
C24_HuobiProbitValidate ==
    (gpc = "done" /\ gOut.kind = "return" /\ gProvider \in {"Huobi", "Probit"})
       => /\ Validated(gOut.value)
          /\ ValidatedPrices(gRaw) # <<>>
          /\ gOut.value = RoundDiv(SumSeq(ValidatedPrices(gRaw)),
                                   Len(ValidatedPrices(gRaw)))

(***************************************************************************)
(* Claims about the provider registry (specification SpecRegistry)         *)
(***************************************************************************)
\* the environment value is a list whose entries are all objects
EnvListed == rEnv.kind = "list" /\ \A i \in 1..Len(rEnv.items) : rEnv.items[i].kind # "null"

\* the entries of the environment, of the registrations and of the static
\* list that declare a key
EnvDeclaring(key) ==
    {i \in 1..Len(rEnv.items) :
        EnvListed /\ rEnv.items[i].kind = "named"
                  /\ key \in {rEnv.items[i].name, 0 - rEnv.items[i].name}}
CustomDeclaring(key) == {i \in 1..Len(rCustom) : rCustom[i][1] = key}
StaticDeclaring(key) ==
    {i \in 1..Len(rStatic) : key \in {rStatic[i].name, 0 - rStatic[i].name}}

Max(S) == CHOOSE x \in S : \A y \in S : y <= x

\* the descriptor of the highest-precedence source that declares the key
HighestPrecedence(key) ==
    IF EnvDeclaring(key) # {}
      THEN LET item == rEnv.items[Max(EnvDeclaring(key))] IN
           Descriptor(item.name, EnvModule, item.enabled # 0)
    ELSE IF CustomDeclaring(key) # {}
      THEN rCustom[Max(CustomDeclaring(key))][2]
    ELSE rStatic[Max(StaticDeclaring(key))]

DeclaredSomewhere(key) ==
    EnvDeclaring(key) \cup CustomDeclaring(key) \cup StaticDeclaring(key) # {}

KeyOf(name) == IF name < 0 THEN 0 - name ELSE name

\* what a call that has just returned must have returned
ResolvedByPrecedence ==
    /\ (rLast.op = "getAvailableProviders" /\ rLast.kind = "ok")
          => LET n == Len(rLast.keys) - Len(rFactories) IN
             \A i, j \in 1..n : rLast.keys[i] = rLast.keys[j] => i = j
    /\ (rLast.op = "getProvider" /\ rLast.kind # "crash")
          => /\ rLast.kind = "lazy" <=> DeclaredSomewhere(KeyOf(rLast.name))
             /\ rLast.kind = "lazy"
                   => rLast.desc = HighestPrecedence(KeyOf(rLast.name))

Malformed ==
    \/ rEnv.kind \in {"text", "badjson"}
    \/ rEnv.kind = "list"
         /\ \E i \in 1..Len(rEnv.items) : rEnv.items[i].kind # "named"

\* C26: no call of the registry raises because of a malformed environment
\* override.
C26_MalformedOverrideNeverCrashes ==
    Malformed => rLast.kind # "crash"

\* C27: no provider of the list built by loadProvidersFromEnv has a resolved
\* descriptor that is disabled.
C27_DisabledNeverListed ==
    (rLast.op = "loadProvidersFromEnv" /\ rLast.kind = "ok")
       => \A i \in 1..Len(rLast.providers) :
             rLast.providers[i].kind = "lazy" => rLast.providers[i].desc.enabled

(***************************************************************************)
(* Claims about the lazy provider (specification SpecLazy)                 *)
(***************************************************************************)
\* C28: the live provider is constructed only once a price was requested,
\* and at most once: every call, also one that overlaps the first, runs on
\* the one cached instance.
C28_ConstructedOnce ==
    /\ lConstructed <= 1
    /\ (\A c \in LazyCalls : lPc[c] = "idle") => lConstructed = 0
    /\ \A c \in LazyCalls : lPc[c] \in {"price", "done"} => lUses[c] = 1

(***************************************************************************)
(* Claims about the provider count (specification SpecCtor)                *)
(***************************************************************************)
\* C29: a getAggregatedHivePrice call made with an empty provider list has
\* failed with the configuration error without a round, an invocation or a
\* sleep, and no aggregator was constructed from an explicitly empty list.
C29_RequiresAProvider ==
    /\ (xpc \in {"round", "sleep", "done"} /\ xAtCall = 0)
          => /\ xpc = "done"
             /\ xRes = "No price providers configured"
             /\ xRounds = 0 /\ xInvoked = 0 /\ xSleeps = 0
    /\ xArg = 0 => xpc = "ctorThrew"

\* a call on an aggregator whose list was emptied failed at once
C29_Witness ==
    /\ xpc = "done"
    /\ xAtCall = 0
    /\ xRes = "No price providers configured"
    /\ xRounds = 0

(***************************************************************************)
(* Claims about the backoff of the failover wrapper (specification Spec)   *)
(***************************************************************************)
\* min(baseRetryDelay x 2^a + jitter, maxRetryDelay) for some jitter in [0, 100)
IsBackoffOf(d, a) ==
    \E jitter \in 0..99 :
       d = Min(BaseRetryDelay * (2 ^ a) + jitter, MaxRetryDelay)

\* C30: a sleep is taken only after a recoverable failure with attempts
\* remaining; by then the wrapper has rotated to the next endpoint, the
\* sleep after the a-th failure lasts min(baseRetryDelay x 2^a + jitter,
\* maxRetryDelay), never more than maxRetryDelay, and the retry on the new
\* endpoint follows it.
C30_RotateSleepRetry ==
    [][/\ sleeps' > sleeps
          => /\ fpc = "op" /\ fpc' = "sleep"
             /\ isRecoverableChainError(lastError')
             /\ recovFailures' = recovFailures + 1
             /\ attempt' < maxRetries
             /\ currentNodeIndex' = (currentNodeIndex + 1) % nodes
             /\ chain' = currentNodeIndex'
             /\ IsBackoffOf(delay', recovFailures')
             /\ delay' <= MaxRetryDelay
       /\ (fpc = "op" /\ fpc' # "sleep") => sleeps' = sleeps
       /\ (fpc = "sleep" /\ fpc' # "sleep")
          => /\ fpc' = "op"
             /\ opNode' = chain
             /\ invocations' = invocations + 1
             /\ sleeps' = sleeps
      ]_vars

\* the sleep after the fourth recoverable failure is capped at maxRetryDelay
C30_Witness ==
    /\ fpc = "sleep"
    /\ recovFailures = 4
    /\ sleeps = 4
    /\ delay = MaxRetryDelay
    /\ chain = (i0 + 4) % nodes

IndexAgrees ==
    /\ currentNodeIndex \in 0..(nodes - 1)
    /\ chain # Null => chain = currentNodeIndex

\* C32: in every state the current index is in 0..n-1 and the endpoint of
\* the live connection is nodes[current index]; the index changes only by a
\* rotation, which goes to the next endpoint and wraps from n-1 to 0.
C32_EndpointFollowsIndex ==
    [][/\ IndexAgrees
       /\ IndexAgrees'
       /\ currentNodeIndex' # currentNodeIndex
             => currentNodeIndex' =
                   (IF currentNodeIndex = nodes - 1 THEN 0
                    ELSE currentNodeIndex + 1)]_vars

\* a later call started on the last of three endpoints and its rotation
\* wrapped to the first
C32_Witness ==
    /\ nodes = 3
    /\ i0 = 2
    /\ sleeps = 1
    /\ currentNodeIndex = 0
    /\ chain = 0

(***************************************************************************)
(* Claims about the endpoints one call visits (specification Spec)         *)
(***************************************************************************)
\* the endpoint the i-th invocation of a call started at index start runs on
EndpointOf(start, i) == (start + i - 1) % nodes

\* a call that invoked its operation has returned or thrown
CallEnded == fpc = "idle" /\ fres.kind \in {"ok", "err"} /\ invocations >= 1

\* C33: while the i-th invocation of a call started at i0 runs, the live
\* endpoint is (i0 + i - 1) mod n and the call has rotated i - 1 times; the
\* same holds when the call ends.  A call that exhausts the default budget of
\* 2n attempts has run two invocations on every endpoint and leaves the index
\* at (i0 + 2n - 1) mod n.
C33_InvocationEndpoints ==
    /\ fpc = "op"
          => /\ opNode = EndpointOf(i0, invocations)
             /\ chain = opNode
             /\ currentNodeIndex = opNode
             /\ sleeps = invocations - 1
    /\ CallEnded
          => /\ sleeps = invocations - 1
             /\ currentNodeIndex = EndpointOf(i0, invocations)
    /\ (CallEnded /\ maxRetries = 2 * nodes /\ recovFailures = maxRetries)
          => /\ invocations = 2 * nodes
             /\ currentNodeIndex = (i0 + 2 * nodes - 1) % nodes
             /\ \A e \in 0..(nodes - 1) :
                   Cardinality({i \in 1..invocations : EndpointOf(i0, i) = e}) = 2

\* a call started at index 1 of three endpoints exhausted the default budget
C33_Witness ==
    /\ nodes = 3
    /\ maxRetries = 6
    /\ i0 = 1
    /\ fpc = "idle"
    /\ fres.kind = "err"
    /\ recovFailures = 6
    /\ invocations = 6
    /\ currentNodeIndex = 0

(***************************************************************************)
(* Claims about the attempt budget of one call (specification Spec)        *)
(***************************************************************************)
\* a call on an initialized wrapper has returned or thrown
InitializedCallEnded == fpc = "idle" /\ fres.kind \in {"ok", "err"}

\* the operation was invoked between once and maxRetries times, and an error
\* raised is one an invocation of this call raised
WithinBudget ==
    /\ invocations >= 1
    /\ invocations <= maxRetries
    /\ fres.kind = "err"
          => /\ fres.err.cls \in ErrorClasses
             /\ fres.err.id \in 1..invocations

\* C34: for every accepted configuration, an explicit maxRetries of 0
\* included, every call on an initialized wrapper invokes the operation at
\* least once and at most maxRetries times, and the error a failed call
\* raises was raised by one of its invocations.
C34_AtLeastOneInvocation ==
    InitializedCallEnded => WithinBudget

\* the same for the configurations with maxRetries >= 1
C34_ButZeroBudget ==
    (InitializedCallEnded /\ maxRetries >= 1) => WithinBudget

(***************************************************************************)
(* Claims about the termination of getAggregatedHivePrice                  *)
(* (specification SpecAggFair)                                             *)
(***************************************************************************)
\* C35: a call that has started ends, with a price or with an error, after
\* at most maxRetries rounds and maxRetries - 1 inter-round sleeps, whether
\* or not its providers ever settle.
C35_CallTerminates ==
    /\ [](/\ roundsRun <= AggMaxRetries
          /\ Len(aSleeps) <= AggMaxRetries - 1
          /\ apc = "done" => ares.kind \in {"ok", "err"})
    /\ (apc \in {"round", "sleep"}) ~> (apc = "done")

\* no provider ever settled: three deadlines, two sleeps, then the error
C35_Witness ==
    /\ apc = "done"
    /\ ares.kind = "err"
    /\ timedOut = 1..AggMaxRetries
    /\ inflight = Providers \X (1..AggMaxRetries)
    /\ roundsRun = AggMaxRetries
    /\ Len(aSleeps) = AggMaxRetries - 1

(***************************************************************************)
(* Claims about exceptions inside a round (specification SpecAgg)          *)
(***************************************************************************)
\* the round that ended last had successes whose weights sum to zero, so
\* the combination step threw
CombinationThrew ==
    /\ RoundEnded
    /\ Successful(exchangePrices) # <<>>
    /\ WeightSum(Successful(exchangePrices)) = 0

\* C36: an exception raised inside a round, such as the combination step's
\* on a total weight of zero, ends that round as a failed one: the loop
\* sleeps and retries, or after the last round raises the retry-count
\* error, which is the only error a call with providers ever raises.
C36_RoundAbsorbsExceptions ==
    /\ ares.kind \in {"none", "ok", "err"}
    /\ ares.kind = "err"
          => /\ ares.round = AggMaxRetries
             /\ roundsRun = AggMaxRetries
    /\ CombinationThrew
          => /\ ares.kind # "ok"
             /\ IF roundsRun < AggMaxRetries
                  THEN apc = "sleep" /\ Len(aSleeps) = roundsRun
                  ELSE apc = "done" /\ ares.kind = "err"

\* the first round had successes with a total weight of zero and is retried
C36_Witness ==
    /\ CombinationThrew
    /\ roundsRun = 1
    /\ apc = "sleep"
    /\ aSleeps = <<2000>>

(***************************************************************************)
(* Claims about the range of the aggregate (specification SpecAgg)         *)
(***************************************************************************)
SuccessfulPrices == {Successful(exchangePrices)[i].price :
                        i \in 1..Len(Successful(exchangePrices))}

WithinSuccesses ==
    /\ \E p \in SuccessfulPrices : p <= ares.price
    /\ \E p \in SuccessfulPrices : ares.price <= p

\* C37: the price returned lies between the smallest and the largest price
\* of the round's successful entries, whatever weights are configured.
C37_BetweenMinAndMax ==
    ares.kind = "ok" => WithinSuccesses

\* the same when no configured weight is negative
C37_ButNegativeWeights ==
    (ares.kind = "ok" /\ \A p \in Providers : weightCfg[p] # <<0 - 1>>)
        => WithinSuccesses

(***************************************************************************)
(* Claims about one pair fetch (specification SpecPair)                    *)
(***************************************************************************)
RECURSIVE SumOf(_)
SumOf(ns) == IF ns = <<>> THEN 0 ELSE Head(ns) + SumOf(Tail(ns))

C38_WitnessNotFound ==
    /\ hRetryAttempts = DefaultRetryAttempts
    /\ hRes = "err"
    /\ hOnlyNotFound
    /\ hHttp = <<1, 1, 1>>

(***************************************************************************)
(* Claims about start() and stop() (specification SpecLife)                *)
(***************************************************************************)
\* C39: whatever the order and overlap of start() and stop() calls, at most
\* one interval timer is armed, and once a stop() call has returned no timer
\* is armed and no publish is started any more.
C39_OneTimerNoneAfterStop ==
    /\ Cardinality(sActive) <= 1
    /\ sStopReturned => sActive = {} /\ sLatePublishes = 0

\* the same for the timer this.intervalId refers to: it is the only one that
\* stop() clears
C39_ButOnlyTheLastTimer ==
    /\ sIntervalId # Null => sIntervalId \in sActive
    /\ sIsShuttingDown => sIntervalId = Null \/ sIsRunning

(***************************************************************************)
(* Claims about publishFeedPrice (specification SpecPublish)               *)
(***************************************************************************)
WrapperActs ==
    <<fpc, attempt, invocations, opNode, currentNodeIndex>>'
      # <<fpc, attempt, invocations, opNode, currentNodeIndex>>

\* C40: the failover wrapper runs an operation only for a publishFeedPrice
\* call on an initialized publisher whose aggregator has returned a price that
\* is a number above zero; a call that ends because the publisher is not
\* initialized, the aggregation failed or the price check failed makes no
\* broadcast attempt and leaves the failover index unchanged.
C40_BroadcastOnlyAfterCheckedPrice ==
    [][/\ WrapperActs =>
             /\ uHive
             /\ uPc = "broadcast" \/ (uPc = "agg" /\ uPc' = "broadcast")
             /\ uPrice' # Null /\ uPrice' # NaN /\ uPrice' > 0
       /\ (uPc' = "idle"
             /\ uRes' \in {"not-initialized", "aggregation-failed", "invalid-price"}
             /\ (uCalls' # uCalls \/ uPc # "idle"))
            => /\ ~WrapperActs
               /\ uPc # "broadcast"
               /\ fpc = "idle"]_vars

\* a publish ended on a price of zero after an earlier one had rotated the
\* wrapper: the index is where the earlier publish left it
C40_Witness ==
    /\ uCalls = 2
    /\ uPc = "idle"
    /\ uRes = "invalid-price"
    /\ uPrice = 0
    /\ invocations = 2
    /\ currentNodeIndex = 1

=============================================================================
